---- MODULE Spec2Model ----
(***************************************************************************)
(* A model of the opx-dhcp-agent: the DHCP message codec as far as the     *)
(* agent uses it, the transaction table, the packet decision procedure,    *)
(* the dispatch of the main loop, reconfiguration and expiry.              *)
(***************************************************************************)
EXTENDS Integers, Sequences, FiniteSets, TLC

VARIABLES
    pc,              \* position of main_loop: "poll", "drain", "sent", "config",
                     \* "expiry", or "crashed" once an exception left it
    now,             \* the value time.time() returns
    state,           \* Agent._state: xid -> (ifinfo, src_ip, src_mac, stamp)
    active_config,   \* Agent._active_config: <<>> for None, <<list>> otherwise
    pending_config,  \* Agent._pending_config: <<>> for None, <<list>> otherwise
    ifaces,          \* DHCPIo.ifaces: interface name -> Ifinfo
    ifaces_by_fd,    \* DHCPIo.ifaces_by_fd: fd -> Ifinfo
    epfd,            \* fds registered with the epoll object (the UDP socket apart)
    opened,          \* number of Ifinfo objects constructed so far
    last             \* the event the loop body handles and what it wrote

vars == <<pc, now, state, active_config, pending_config, ifaces, ifaces_by_fd,
          epfd, opened, last>>

-----------------------------------------------------------------------------
(* Program constants *)

BOOTREQUEST == 1
BOOTREPLY == 2
TIMEOUT == 300
DO_NOT_RELAY == 0
UDP_RELAY == 1
MITM_RELAY == 3
DHCPSERVER == 67
DHCPCLIENT == 68
ETH_BROADCAST == <<255, 255, 255, 255, 255, 255>>
IP_BROADCAST == "255.255.255.255"
pad == 0
end == 255
RAI_TAG == 82
subtags == [k \in {"circuit-id", "remote-id"} |->
               IF k = "circuit-id" THEN 1 ELSE 2]
CHADDR_MAX == 16
HLEN_MIN == 1
HLEN_MAX == 16

\* Python's None, where the value it stands in for is a string
None == "None"

-----------------------------------------------------------------------------
(* Bounds of the model *)

\* the clock is sampled at 0 and at TIMEOUT + j, j <= MaxSkew
MaxSkew == 1
\* Ifinfo objects constructed in one run
MaxOpens == 2

Instants == {0} \cup {TIMEOUT + j : j \in 0..MaxSkew}

-----------------------------------------------------------------------------
(* The environment: the host's interfaces, the bridges' forwarding         *)
(* databases, the configuration requests and the traffic.                  *)

IfNames == {"br100", "br200"}
Servers == {"10.0.0.1"}
TrustedPorts == {"eth0"}

\* netifaces.ifaddresses(iface)[AF_INET]: br200 has no IPv4 address
HostIPv4 == [n \in IfNames |-> IF n = "br100" THEN "192.168.1.2" ELSE None]
\* netifaces.ifaddresses(iface)[AF_PACKET]
HostMac == [n \in IfNames |-> IF n = "br100" THEN <<2, 0, 0, 0, 1, 0>>
                                             ELSE <<2, 0, 0, 0, 2, 0>>]

MacA == <<30, 75, 173, 145, 104, 58>>
MacB == <<30, 75, 173, 145, 104, 59>>
\* /sys/class/net/<bridge>/brforward, mac_addr -> port: MacA is learnt on a
\* member port of either bridge, MacB on none
Brforward == [n \in IfNames |->
                 [m \in {MacA} |-> IF n = "br100" THEN "e101" ELSE "e201"]]

\* the characters of a port name, all of iso-8859-1
Latin1 == [s \in {"e101", "e201"} |->
              IF s = "e101" THEN <<101, 49, 48, 49>> ELSE <<101, 50, 48, 49>>]

\* socket.inet_pton / inet_ntop on the addresses that occur
InetTable == [a \in {"0.0.0.0", "192.168.1.2", "192.168.98.1", "10.0.0.1",
                       "255.255.255.255"} |->
                 CASE a = "0.0.0.0" -> <<0, 0, 0, 0>>
                   [] a = "255.255.255.255" -> <<255, 255, 255, 255>>
                   [] a = "192.168.1.2" -> <<192, 168, 1, 2>>
                   [] a = "192.168.98.1" -> <<192, 168, 98, 1>>
                   [] a = "10.0.0.1" -> <<10, 0, 0, 1>>]
inet_pton(a) == InetTable[a]
inet_ntop(octets) == CHOOSE a \in DOMAIN InetTable : InetTable[a] = octets

Xids == {17, 66}
ClientIp == <<192, 168, 1, 77>>
ClientMac == <<30, 75, 173, 145, 104, 60>>

Zeros(n) == [i \in 1..n |-> 0]

-----------------------------------------------------------------------------
(* Value types (types.py).  A colon-hex string is the sequence of its      *)
(* elements, an element the sequence of its hex digits: 0..15 stand for    *)
(* the digits 0-9 and a-f, 26..31 for the upper case A-F.                  *)

\* '{:02x}'.format(octet)
HexElem(octet) == <<octet \div 16, octet % 16>>
\* int(_, base=16) of an element of one or two digits
HexOctet(elem) ==
    IF Len(elem) = 1 THEN elem[1] % 16
    ELSE (elem[1] % 16) * 16 + (elem[2] % 16)

\* HexString.decode: '{:02x}' of every octet, joined by ':'
HexStringDecode(octets) == [i \in 1..Len(octets) |-> HexElem(octets[i])]
\* HexString.encode: int(_, base=16) of every element
HexStringEncode(val) == [i \in 1..Len(val) |-> HexOctet(val[i])]
\* HexString.truncate: ':'.join(val.split(':')[:max_])
HexStringTruncate(val, max_) ==
    IF Len(val) <= max_ THEN val ELSE SubSeq(val, 1, max_)
\* struct.pack('16s', octets): cut or right-filled with zeroes
PackFixed(octets, n) ==
    IF Len(octets) >= n THEN SubSeq(octets, 1, n)
    ELSE octets \o Zeros(n - Len(octets))

\* the outcome of a call: the exception it raises or the value it returns
Raise(exc) == [exc |-> exc, val |-> <<>>]
Return(val) == [exc |-> None, val |-> val]

\* an element int(_, base=16) accepts and bytes() takes
IsHexElem(elem) ==
    /\ Len(elem) \in {1, 2}
    /\ \A i \in 1..Len(elem) : elem[i] \in (0..15) \cup (26..31)

\* struct.pack('>B' | '>H' | '>I', val)
IntPack(val, size) ==
    [i \in 1..size |-> (val \div (256 ^ (size - i))) % 256]

RECURSIVE IntUnpackLittle(_)
\* struct.unpack_from('>B' | '>H' | '>I', octets).  IntUnpackLittle is the
\* faulty variant that reads the octets in little-endian order.
IntUnpackLittle(octets) ==
    IF octets = <<>> THEN 0
    ELSE Head(octets) + 256 * IntUnpackLittle(Tail(octets))

RECURSIVE IntUnpack(_)
IntUnpack(octets) ==
    IF octets = <<>> THEN 0
    ELSE IntUnpack(SubSeq(octets, 1, Len(octets) - 1)) * 256
         + octets[Len(octets)]

-----------------------------------------------------------------------------
(* The options field (rfc2132.py) *)

IsTagOnly(option) ==
    /\ "tag" \in DOMAIN option
    /\ option.tag \in {pad, end}

IsTlv(option) ==
    /\ {"tag", "length", "value"} \subseteq DOMAIN option
    /\ option.tag \in 0..255
    /\ option.length \in 0..255
    /\ pad < option.tag
    /\ option.tag < end
    /\ option.length = Len(option.value)

\* Options._option_tag, else Options._option_tlv
OptionCanonical(option) ==
    IF IsTagOnly(option) THEN [tag |-> option.tag]
    ELSE [tag |-> option.tag, length |-> option.length, value |-> option.value]

\* Options.__call__: every 'end' dropped, one 'end' appended.
\* OptionsCallKeepEnd is the faulty variant that drops no 'end'.
OptionsCallKeepEnd(val) ==
    IF \E i \in 1..Len(val) : ~IsTagOnly(val[i]) /\ ~IsTlv(val[i])
    THEN [exc |-> "ValueError", val |-> <<>>]
    ELSE [exc |-> None,
          val |-> Append([i \in 1..Len(val) |-> OptionCanonical(val[i])],
                         [tag |-> end])]

OptionsCall(val) ==
    IF \E i \in 1..Len(val) : ~IsTagOnly(val[i]) /\ ~IsTlv(val[i])
    THEN [exc |-> "ValueError", val |-> <<>>]
    ELSE LET canon == [i \in 1..Len(val) |-> OptionCanonical(val[i])]
             kept == SelectSeq(canon, LAMBDA o : o.tag # end)
         IN  [exc |-> None, val |-> Append(kept, [tag |-> end])]

OptionPack(option) ==
    IF option.tag # pad /\ option.tag # end
    THEN <<option.tag, option.length>> \o option.value
    ELSE <<option.tag>>

RECURSIVE OptionsPack(_)
\* Options.pack: the options exactly as supplied
OptionsPack(options) ==
    IF options = <<>> THEN <<>>
    ELSE OptionPack(Head(options)) \o OptionsPack(Tail(options))

RECURSIVE OptionsUnpackFrom(_, _)
OptionsUnpackFrom(options, octets) ==
    IF octets = <<>>
    THEN [exc |-> None, options |-> options, octets |-> <<>>]
    ELSE LET tag == Head(octets)
             rest == Tail(octets)
         IN  IF tag = pad
             THEN OptionsUnpackFrom(Append(options, [tag |-> tag]), rest)
             ELSE IF tag = end
             THEN [exc |-> None, options |-> Append(options, [tag |-> tag]),
                   octets |-> rest]
             ELSE IF rest # <<>> /\ Head(rest) <= Len(Tail(rest))
             THEN LET length == Head(rest)
                      body == Tail(rest)
                  IN  OptionsUnpackFrom(
                          Append(options, [tag |-> tag, length |-> length,
                                           value |-> SubSeq(body, 1, length)]),
                          SubSeq(body, length + 1, Len(body)))
             ELSE [exc |-> "ValueError", options |-> options, octets |-> rest]

\* Options.unpack.  OptionsUnpackNoTrailing is the faulty variant that
\* returns no trailing octets.
OptionsUnpackNoTrailing(octets) ==
    [OptionsUnpackFrom(<<>>, octets) EXCEPT !.octets = <<>>]

OptionsUnpack(octets) == OptionsUnpackFrom(<<>>, octets)

-----------------------------------------------------------------------------
(* The built-in option classes (rfc2132.py, rfc3046.py) and the methods    *)
(* of their base class (options.py).  A class is the record of its         *)
(* attributes; length is the set holding the fixed length, empty where the *)
(* class has None; value_type names the value type, "True" where the class *)
(* overrides encode_value and decode_value.  A text string is the sequence *)
(* of its code points.                                                     *)

Pad ==
    [option |-> "Pad", tag |-> pad, length |-> {}, value_type |-> None]
End ==
    [option |-> "End", tag |-> end, length |-> {}, value_type |-> None]
SubnetMask ==
    [option |-> "Subnet Mask", tag |-> 1, length |-> {4},
     value_type |-> "IPv4"]
TimeOffset ==
    [option |-> "Time Offset", tag |-> 2, length |-> {4},
     value_type |-> "SInt32"]
HostName ==
    [option |-> "Host Name", tag |-> 12, length |-> {},
     value_type |-> "True"]
RequestedIPAddress ==
    [option |-> "Requested IP Address", tag |-> 50, length |-> {4},
     value_type |-> "IPv4"]
MessageType ==
    [option |-> "DHCP Message Type", tag |-> 53, length |-> {1},
     value_type |-> "Enum"]
ParameterRequestList ==
    [option |-> "Parameter Request List", tag |-> 55, length |-> {},
     value_type |-> "True"]
RelayAgentInformation ==
    [option |-> "Relay Agent Information", tag |-> RAI_TAG, length |-> {},
     value_type |-> "True"]

\* the registry BuiltIn
BuiltInClasses ==
    <<Pad, End, SubnetMask, TimeOffset, HostName, RequestedIPAddress,
      MessageType, ParameterRequestList, RelayAgentInformation>>

\* the enum of MessageType
value_to_label ==
    [v \in 1..8 |->
        CASE v = 1 -> "DHCPDISCOVER" [] v = 2 -> "DHCPOFFER"
          [] v = 3 -> "DHCPREQUEST"  [] v = 4 -> "DHCPDECLINE"
          [] v = 5 -> "DHCPACK"      [] v = 6 -> "DHCPNAK"
          [] v = 7 -> "DHCPRELEASE"  [] v = 8 -> "DHCPINFORM"]
label_to_value ==
    [l \in {value_to_label[v] : v \in 1..8} |->
        CHOOSE v \in 1..8 : value_to_label[v] = l]

\* RelayAgentInformation.suboptions
suboptions ==
    [t \in {subtags[k] : k \in DOMAIN subtags} |->
        CHOOSE k \in DOMAIN subtags : subtags[k] = t]

\* struct.pack('>i', val): two's complement, most significant octet first
SInt32Pack(val) ==
    IF val >= 0 THEN IntPack(val, 4)
    ELSE LET u == (val + 2147483647) + 1
         IN  <<128 + u \div 16777216, (u \div 65536) % 256,
               (u \div 256) % 256, u % 256>>

\* struct.unpack('>i', octets)
SInt32Unpack(octets) ==
    IF octets[1] < 128 THEN IntUnpack(octets)
    ELSE (IntUnpack(<<octets[1] - 128>> \o Tail(octets)) - 2147483647) - 1

\* str.encode('iso-8859-1'): a code point up to 255 is its octet
StrEncode(val) ==
    IF \E i \in 1..Len(val) : val[i] > 255 THEN Raise("UnicodeEncodeError")
    ELSE Return(val)

\* sorted(val), over the names of sub-options that occur
RaiKeyOrder == <<"circuit-id", "remote-id", "vendor">>

RECURSIVE RaiEncodeFrom(_, _, _)
\* the loop of RelayAgentInformation.encode_value
RaiEncodeFrom(octets, keys, val) ==
    IF keys = <<>> THEN Return(octets)
    ELSE IF Head(keys) \notin DOMAIN val
    THEN RaiEncodeFrom(octets, Tail(keys), val)
    ELSE IF Head(keys) \notin DOMAIN subtags THEN Raise("ValueError")
    ELSE IF StrEncode(val[Head(keys)]).exc # None
    THEN Raise(StrEncode(val[Head(keys)]).exc)
    ELSE IF Len(val[Head(keys)]) > 255 THEN Raise("struct.error")
    ELSE RaiEncodeFrom(octets \o <<subtags[Head(keys)],
                                   Len(val[Head(keys)])>>
                              \o StrEncode(val[Head(keys)]).val,
                       Tail(keys), val)

\* RelayAgentInformation.encode_value
RaiEncodeValue(val) == RaiEncodeFrom(<<>>, RaiKeyOrder, val)

\* bytes.decode('iso-8859-1'): an octet is the code point of its number
Latin1Decode(octets) == octets

RECURSIVE RaiDecodeFrom(_, _)
\* the loop of RelayAgentInformation.decode_value
RaiDecodeFrom(value, octets) ==
    IF octets = <<>> THEN Return(value)
    ELSE IF /\ Len(octets) >= 2
            /\ octets[2] <= Len(octets) - 2
            /\ octets[1] \in DOMAIN suboptions
    THEN RaiDecodeFrom(
             [k \in DOMAIN value \cup {suboptions[octets[1]]} |->
                 IF k = suboptions[octets[1]]
                 THEN Latin1Decode(SubSeq(octets, 3, 2 + octets[2]))
                 ELSE value[k]],
             SubSeq(octets, 3 + octets[2], Len(octets)))
    ELSE Raise("ValueError")

\* RelayAgentInformation.decode_value.  RaiDecodeValueAny is the faulty
\* variant that takes a value of fewer than two octets.
RaiDecodeValueAny(octets) == RaiDecodeFrom(<<>>, octets)

RaiDecodeValue(octets) ==
    IF Len(octets) < 2 THEN Raise("ValueError")
    ELSE RaiDecodeFrom(<<>>, octets)

\* cls.encode_value(val): Option.encode_value for the classes with a
\* value type, the override of the others
encode_value(cls, val) ==
    CASE cls.value_type = "IPv4" ->
            IF val \in DOMAIN InetTable THEN Return(inet_pton(val))
            ELSE Raise("ValueError")
      [] cls.value_type = "SInt32" -> Return(SInt32Pack(val))
      [] cls.value_type = "Enum" ->
            IF val \in DOMAIN label_to_value
            THEN Return(IntPack(label_to_value[val], 1))
            ELSE Raise("ValueError")
      [] cls.option = "Host Name" -> StrEncode(val)
      [] cls.option = "Parameter Request List" ->
            IF \E i \in 1..Len(val) : val[i] \notin 0..255
            THEN Raise("struct.error")
            ELSE Return(val)
      [] cls.option = "Relay Agent Information" -> RaiEncodeValue(val)

\* cls.decode_value(octets)
decode_value(cls, octets) ==
    CASE cls.value_type = "IPv4" -> Return(inet_ntop(octets))
      [] cls.value_type = "SInt32" -> Return(SInt32Unpack(octets))
      [] cls.value_type = "Enum" ->
            IF IntUnpack(octets) \in DOMAIN value_to_label
            THEN Return(value_to_label[IntUnpack(octets)])
            ELSE Raise("ValueError")
      [] cls.option = "Host Name" -> Return(octets)
      [] cls.option = "Parameter Request List" ->
            IF Len(octets) < 1 THEN Raise("ValueError")
            ELSE Return(octets)
      [] cls.option = "Relay Agent Information" -> RaiDecodeValue(octets)

\* Option.encode
OptionEncode(cls, option) ==
    IF "option" \notin DOMAIN option THEN Raise("KeyError")
    ELSE IF cls.option # option.option THEN Raise("ValueError")
    ELSE IF cls.value_type = None THEN Return([tag |-> cls.tag])
    ELSE IF "value" \notin DOMAIN option THEN Raise("KeyError")
    ELSE LET octets == encode_value(cls, option.value)
         IN  IF octets.exc # None THEN Raise(octets.exc)
             ELSE Return([tag |-> cls.tag, length |-> Len(octets.val),
                          value |-> octets.val])

\* Option.decode
OptionDecode(cls, option) ==
    IF "tag" \notin DOMAIN option THEN Raise("KeyError")
    ELSE IF cls.tag # option.tag THEN Raise("ValueError")
    ELSE IF cls.length # {} /\ "length" \notin DOMAIN option
    THEN Raise("KeyError")
    ELSE IF cls.length # {} /\ option.length \notin cls.length
    THEN Raise("ValueError")
    ELSE IF cls.value_type = None THEN Return([option |-> cls.option])
    ELSE IF ~({"length", "value"} \subseteq DOMAIN option)
    THEN Raise("KeyError")
    ELSE IF option.length # Len(option.value) THEN Raise("ValueError")
    ELSE LET value == decode_value(cls, option.value)
         IN  IF value.exc # None THEN Raise(value.exc)
             ELSE Return([option |-> cls.option, value |-> value.val])

-----------------------------------------------------------------------------
(* The registry of the built-in options (options.py, class Supported) *)

\* except (classes): an exception is caught by its class or a base class
Caught(exc, classes) ==
    \/ exc \in classes
    \/ exc = "UnicodeEncodeError" /\ "ValueError" \in classes

\* Supported._names[name] and Supported._tags[tag]
ByName(name) == {i \in DOMAIN BuiltInClasses : BuiltInClasses[i].option = name}
ByTag(tag) == {i \in DOMAIN BuiltInClasses : BuiltInClasses[i].tag = tag}

\* Supported.encode lines 155-160: the option as a TLV option, its
\* hexadecimal string value encoded by HexString(256)
GenericEncode(option) ==
    IF ~({"tag", "length", "value"} \subseteq DOMAIN option)
    THEN Raise("KeyError")
    ELSE IF /\ \A i \in 1..Len(option.value) : IsHexElem(option.value[i])
            /\ Len(option.value) <= 256
    THEN Return([tag |-> option.tag, length |-> option.length,
                 value |-> HexStringEncode(option.value)])
    ELSE Raise("ValueError")

\* Supported.decode lines 181-186: the option as a TLV option, its binary
\* string value decoded by HexString(256)
GenericDecode(option) ==
    IF ~({"tag", "length", "value"} \subseteq DOMAIN option)
    THEN Raise("KeyError")
    ELSE IF Len(option.value) <= 256
    THEN Return([tag |-> option.tag, length |-> option.length,
                 value |-> HexStringDecode(option.value)])
    ELSE Raise("ValueError")

\* self._names[option['option']].encode(option)
NamedEncode(option) ==
    IF "option" \notin DOMAIN option THEN Raise("KeyError")
    ELSE IF ByName(option.option) = {} THEN Raise("KeyError")
    ELSE OptionEncode(BuiltInClasses[CHOOSE i \in ByName(option.option) : TRUE],
                      option)

\* self._tags[option['tag']].decode(option)
TaggedDecode(option) ==
    IF "tag" \notin DOMAIN option THEN Raise("KeyError")
    ELSE IF ByTag(option.tag) = {} THEN Raise("KeyError")
    ELSE OptionDecode(BuiltInClasses[CHOOSE i \in ByTag(option.tag) : TRUE],
                      option)

\* the body of the loop of Supported.encode and of Supported.decode: the
\* result of the registered class; on KeyError or ValueError the TLV
\* option; on KeyError, ValueError or TypeError of that the option itself
Downgrade(registered, generic, option) ==
    IF registered.exc = None THEN registered
    ELSE IF ~Caught(registered.exc, {"KeyError", "ValueError"})
    THEN registered
    ELSE IF generic.exc = None THEN generic
    ELSE IF Caught(generic.exc, {"KeyError", "ValueError", "TypeError"})
    THEN Return(option)
    ELSE generic

RECURSIVE SupportedEncodeFrom(_, _)
SupportedEncodeFrom(result, options) ==
    IF options = <<>> THEN Return(result)
    ELSE LET encoded == Downgrade(NamedEncode(Head(options)),
                                  GenericEncode(Head(options)),
                                  Head(options))
         IN  IF encoded.exc # None THEN Raise(encoded.exc)
             ELSE SupportedEncodeFrom(Append(result, encoded.val),
                                      Tail(options))

\* Supported.encode
SupportedEncode(options) == SupportedEncodeFrom(<<>>, options)

RECURSIVE SupportedDecodeFrom(_, _)
SupportedDecodeFrom(result, options) ==
    IF options = <<>> THEN Return(result)
    ELSE LET decoded == Downgrade(TaggedDecode(Head(options)),
                                  GenericDecode(Head(options)),
                                  Head(options))
         IN  IF decoded.exc # None THEN Raise(decoded.exc)
             ELSE SupportedDecodeFrom(Append(result, decoded.val),
                                      Tail(options))

\* Supported.decode
SupportedDecode(options) == SupportedDecodeFrom(<<>>, options)

-----------------------------------------------------------------------------
(* The DHCP message (rfc2131.py).  A packed message is a record of the     *)
(* header fields the agent reads or writes and the octets of the options;  *)
(* short marks a payload that ends inside the fixed header.                *)

\* Message.truncate_chaddr
truncate_chaddr(msg) ==
    [msg EXCEPT !.chaddr = HexStringTruncate(msg.chaddr, msg.hlen)]

\* the constructor Message(args): every field screened, then __init__
MessageInit(octets, options) ==
    IF octets.op < BOOTREQUEST \/ octets.op > BOOTREPLY
    THEN [exc |-> "ValueError"]
    ELSE IF octets.hlen < HLEN_MIN \/ octets.hlen > HLEN_MAX
    THEN [exc |-> "ValueError"]
    ELSE IF options.exc # None THEN [exc |-> "ValueError"]
    ELSE [exc |-> None,
          msg |-> truncate_chaddr(
              [op |-> octets.op,
               hlen |-> octets.hlen,
               xid |-> octets.xid,
               giaddr |-> inet_ntop(octets.giaddr),
               chaddr |-> HexStringDecode(octets.chaddr),
               options |-> options.val])]

\* _structured_value_unpack once the options field is unpacked
MessageFields(octets, unpacked) ==
    IF unpacked.exc # None THEN [exc |-> "ValueError"]
    ELSE MessageInit(octets, OptionsCall(unpacked.options))

\* Message.unpack
MessageUnpack(octets) ==
    IF octets.short THEN [exc |-> "struct.error"]
    ELSE MessageFields(octets, OptionsUnpack(octets.options))

\* Message.pack: _structured_value_pack
MessagePack(msg) ==
    [short |-> FALSE,
     op |-> msg.op,
     hlen |-> msg.hlen,
     xid |-> msg.xid,
     giaddr |-> inet_pton(msg.giaddr),
     chaddr |-> PackFixed(HexStringEncode(msg.chaddr), CHADDR_MAX),
     options |-> OptionsPack(msg.options)]

\* Message.encode_options with append=True: 'options' += encoded, screened.
\* encode_options_replace is the faulty variant that behaves as append=False.
encode_options_replace(msg, options) ==
    LET encoded == SupportedEncode(options)
        canon == OptionsCall(encoded.val)
    IN  IF encoded.exc # None THEN [exc |-> encoded.exc, msg |-> msg]
        ELSE [exc |-> canon.exc,
              msg |-> IF canon.exc = None
                      THEN [msg EXCEPT !.options = canon.val]
                      ELSE msg]

encode_options(msg, options) ==
    LET encoded == SupportedEncode(options)
        canon == OptionsCall(msg.options \o encoded.val)
    IN  IF encoded.exc # None THEN [exc |-> encoded.exc, msg |-> msg]
        ELSE [exc |-> canon.exc,
              msg |-> IF canon.exc = None
                      THEN [msg EXCEPT !.options = canon.val]
                      ELSE msg]

-----------------------------------------------------------------------------
(* The structured value framework (types.py) and the message class         *)
(* (rfc2131.py) at the level of octets.  A value handed in by a caller is  *)
(* a record [py, val] of its python type and its content; a canonical      *)
(* value is the content alone.  A text string is the sequence of its       *)
(* character codes.                                                        *)

\* the value types of Message.spec
UInt8(min_, max_) ==
    [type |-> "Int", min_ |-> min_, max_ |-> max_, size |-> 1]
UInt16 == [type |-> "Int", min_ |-> 0, max_ |-> 65535, size |-> 2]
\* UInt32 is 0 .. 0xFFFFFFFF; the integers of the model end at 0x7FFFFFFF,
\* and the values above it are left out
UInt32 == [type |-> "Int", min_ |-> 0, max_ |-> 2147483647, size |-> 4]
IPv4 == [type |-> "IPv4"]
NulTerminatedString(max_) == [type |-> "NulTerminatedString", max_ |-> max_]
HexString(max_) == [type |-> "HexString", max_ |-> max_]
Cookie == [type |-> "Cookie"]
Options == [type |-> "Options"]

\* Cookie.cookie
cookie == <<99, 130, 83, 99>>

\* int(val, base=0) on the strings that occur: <<>> where it raises
IntLiterals ==
    [t \in {"6", "0x06", "0b10", "2", "017", "six", ""} |->
        CASE t = "6" -> <<6>>
          [] t = "0x06" -> <<6>>
          [] t = "0b10" -> <<2>>
          [] t = "2" -> <<2>>
          [] OTHER -> <<>>]


\* Int.__call__
IntCall(type, lex) ==
    CASE lex.py = "str" ->
            IF IntLiterals[lex.val] = <<>> THEN Raise("ValueError")
            ELSE IF IntLiterals[lex.val][1] < type.min_
                    \/ type.max_ < IntLiterals[lex.val][1]
            THEN Raise("ValueError")
            ELSE Return(IntLiterals[lex.val][1])
      [] lex.py = "int" ->
            IF lex.val < type.min_ \/ type.max_ < lex.val
            THEN Raise("ValueError")
            ELSE Return(lex.val)
      [] OTHER -> Raise("TypeError")

\* IPv4.__call__: inet_pton accepts the string or raises
IPv4Call(lex) ==
    CASE lex.py = "str" ->
            IF lex.val \in DOMAIN InetTable THEN Return(lex.val)
            ELSE Raise("ValueError")
      [] OTHER -> Raise("TypeError")

RECURSIVE rstrip(_)
\* val.rstrip('\0')
rstrip(val) ==
    IF val # <<>> /\ val[Len(val)] = 0
    THEN rstrip(SubSeq(val, 1, Len(val) - 1)) ELSE val

\* NulTerminatedString.encode: the value without its trailing NULs in
\* iso-8859-1; a character above 255 cannot be encoded
NulTerminatedStringEncode(type, val) ==
    IF \E i \in 1..Len(val) : val[i] > 255 THEN Raise("ValueError")
    ELSE IF Len(rstrip(val)) < type.max_ THEN Return(rstrip(val))
    ELSE Raise("ValueError")

\* NulTerminatedString.__call__: val itself where it can be encoded
NulTerminatedStringCall(type, lex) ==
    CASE lex.py = "str" ->
            IF NulTerminatedStringEncode(type, lex.val).exc = None
            THEN Return(lex.val) ELSE Raise("ValueError")
      [] OTHER -> Raise("ValueError")

\* NulTerminatedString.decode: cut at the first NUL, then __call__
NulTerminatedStringDecode(type, octets) ==
    LET nuls == {i \in 1..Len(octets) : octets[i] = 0}
        val == IF nuls = {} THEN octets
               ELSE SubSeq(octets, 1,
                           (CHOOSE i \in nuls : \A j \in nuls : i <= j) - 1)
    IN  NulTerminatedStringCall(type, [py |-> "str", val |-> val])

\* HexString.__call__: val itself where it can be encoded
HexStringCall(type, lex) ==
    CASE lex.py = "str" ->
            IF /\ \A i \in 1..Len(lex.val) : IsHexElem(lex.val[i])
               /\ Len(lex.val) <= type.max_
            THEN Return(lex.val) ELSE Raise("ValueError")
      [] OTHER -> Raise("ValueError")

\* Cookie.__call__: bool(val)
CookieCall(lex) ==
    CASE lex.py = "bool" -> Return(lex.val)
      [] lex.py = "int" -> Return(lex.val # 0)
      [] lex.py = "str" -> Return(lex.val # <<>>)
      [] OTHER -> Return(FALSE)

\* the __call__ of a value type: the canonical value of a lexical value
Call(type, lex) ==
    CASE type.type = "Int" -> IntCall(type, lex)
      [] type.type = "IPv4" -> IPv4Call(lex)
      [] type.type = "NulTerminatedString" ->
            NulTerminatedStringCall(type, lex)
      [] type.type = "HexString" -> HexStringCall(type, lex)
      [] type.type = "Cookie" -> CookieCall(lex)
      [] type.type = "Options" ->
            IF lex.py = "tuple" THEN OptionsCall(lex.val)
            ELSE Raise("TypeError")

\* the python value a canonical value is
Lexical(type, val) ==
    [py |-> CASE type.type = "Int" -> "int"
              [] type.type = "Cookie" -> "bool"
              [] type.type = "Options" -> "tuple"
              [] OTHER -> "str",
     val |-> val]

\* field.pack(field.encode(val)) for a canonical value
FieldPack(type, val) ==
    CASE type.type = "Int" -> IntPack(val, type.size)
      [] type.type = "IPv4" -> PackFixed(inet_pton(val), 4)
      [] type.type = "NulTerminatedString" ->
            PackFixed(NulTerminatedStringEncode(type, val).val, type.max_)
      [] type.type = "HexString" ->
            PackFixed(HexStringEncode(val), type.max_)
      [] type.type = "Cookie" -> IF val THEN cookie ELSE <<>>
      [] type.type = "Options" -> OptionsPack(val)

\* the octets a field of fixed size takes
FieldSize(type) ==
    CASE type.type = "Int" -> type.size
      [] type.type = "IPv4" -> 4
      [] OTHER -> type.max_

\* field.decode(field.unpack(octets)): the value as cls(args) receives it,
\* and the octets left
FieldUnpack(type, octets) ==
    LET rest(n) == SubSeq(octets, n + 1, Len(octets))
        head(n) == SubSeq(octets, 1, n)
    IN  CASE type.type = "Cookie" ->
                IF Len(octets) >= 4 /\ head(4) = cookie
                THEN [exc |-> None, val |-> TRUE, octets |-> rest(4)]
                ELSE [exc |-> None, val |-> FALSE, octets |-> octets]
          [] type.type = "Options" ->
                [exc |-> OptionsUnpack(octets).exc,
                 val |-> OptionsUnpack(octets).options,
                 octets |-> OptionsUnpack(octets).octets]
          [] OTHER ->
                IF Len(octets) < FieldSize(type)
                THEN [exc |-> "struct.error", val |-> <<>>, octets |-> octets]
                ELSE CASE type.type = "Int" ->
                            [exc |-> None, val |-> IntUnpack(head(type.size)),
                             octets |-> rest(type.size)]
                       [] type.type = "IPv4" ->
                            [exc |-> None, val |-> inet_ntop(head(4)),
                             octets |-> rest(4)]
                       [] type.type = "HexString" ->
                            [exc |-> None,
                             val |-> HexStringDecode(head(type.max_)),
                             octets |-> rest(type.max_)]
                       [] type.type = "NulTerminatedString" ->
                            [exc |-> NulTerminatedStringDecode(
                                         type, head(type.max_)).exc,
                             val |-> NulTerminatedStringDecode(
                                         type, head(type.max_)).val,
                             octets |-> rest(type.max_)]

\* Message.spec
MessageSpec ==
    <<<<"op", UInt8(BOOTREQUEST, BOOTREPLY)>>,
      <<"htype", UInt8(0, 255)>>,
      <<"hlen", UInt8(HLEN_MIN, HLEN_MAX)>>,
      <<"hops", UInt8(0, 255)>>,
      <<"xid", UInt32>>,
      <<"secs", UInt16>>,
      <<"flags", UInt16>>,
      <<"ciaddr", IPv4>>,
      <<"yiaddr", IPv4>>,
      <<"siaddr", IPv4>>,
      <<"giaddr", IPv4>>,
      <<"chaddr", HexString(CHADDR_MAX)>>,
      <<"sname", NulTerminatedString(64)>>,
      <<"file", NulTerminatedString(128)>>,
      <<"cookie", Cookie>>,
      <<"options", Options>>>>

\* cls.fields: the value type of every key
Fields(spec) ==
    [key \in {spec[i][1] : i \in 1..Len(spec)} |->
        spec[CHOOSE i \in 1..Len(spec) : spec[i][1] = key][2]]

\* _structured_value_screen
structured_value_screen(spec, key, lex) ==
    IF key \notin DOMAIN Fields(spec) THEN Raise("KeyError")
    ELSE [exc |-> Call(Fields(spec)[key], lex).exc,
          val |-> Call(Fields(spec)[key], lex).val]

\* dict.__setitem__ and dict.update
SetItem(self, key, val) ==
    [k \in DOMAIN self \cup {key} |-> IF k = key THEN val ELSE self[k]]

RECURSIVE SetItems(_, _, _)
\* _structured_value_init lines 344-345: self[key] = ivals[key] for every
\* key, up to the first one that is rejected
SetItems(spec, self, ivals) ==
    IF ivals = <<>> THEN [exc |-> None, self |-> self]
    ELSE LET r == structured_value_screen(spec, Head(ivals)[1],
                                          Head(ivals)[2])
         IN  IF r.exc # None THEN [exc |-> r.exc, self |-> self]
             ELSE SetItems(spec, SetItem(self, Head(ivals)[1], r.val),
                           Tail(ivals))

\* Message(args): _structured_value_init, then Message.__init__
Message(args) ==
    LET r == SetItems(MessageSpec, <<>>, args)
    IN  IF r.exc # None THEN [exc |-> r.exc, self |-> <<>>]
        ELSE IF {"chaddr", "hlen"} \subseteq DOMAIN r.self
        THEN [exc |-> None, self |-> truncate_chaddr(r.self)]
        ELSE r

RECURSIVE Screened(_, _, _)
\* _structured_value_update lines 382-383: every value replaced by its
\* canonical value, up to the first one that is rejected
Screened(spec, ivals, done) ==
    IF ivals = <<>> THEN [exc |-> None, ivals |-> done]
    ELSE LET r == structured_value_screen(spec, Head(ivals)[1],
                                          Head(ivals)[2])
         IN  IF r.exc # None THEN [exc |-> r.exc, ivals |-> done]
             ELSE Screened(spec, Tail(ivals),
                           Append(done, <<Head(ivals)[1], r.val>>))

RECURSIVE Updated(_, _)
\* dict.update(ivals)
Updated(self, ivals) ==
    IF ivals = <<>> THEN self
    ELSE Updated(SetItem(self, Head(ivals)[1], Head(ivals)[2]), Tail(ivals))

\* _structured_value_update.  structured_value_update_each is the faulty
\* variant that assigns pair by pair.
structured_value_update_each(spec, self, ivals) ==
    SetItems(spec, self, ivals)

structured_value_update(spec, self, ivals) ==
    LET r == Screened(spec, ivals, <<>>)
    IN  IF r.exc # None THEN [exc |-> r.exc, self |-> self]
        ELSE [exc |-> None, self |-> Updated(self, r.ivals)]

RECURSIVE PackFields(_, _)
PackFields(spec, self) ==
    IF spec = <<>> THEN <<>>
    ELSE FieldPack(Head(spec)[2], self[Head(spec)[1]])
         \o PackFields(Tail(spec), self)

\* _structured_value_pack
structured_value_pack(spec, self) ==
    IF \E i \in 1..Len(spec) : spec[i][1] \notin DOMAIN self
    THEN [exc |-> "KeyError", octets |-> <<>>]
    ELSE [exc |-> None, octets |-> PackFields(spec, self)]

RECURSIVE UnpackFields(_, _, _)
\* _structured_value_unpack lines 400-404: the args for cls(args)
UnpackFields(spec, octets, args) ==
    IF spec = <<>> THEN [exc |-> None, args |-> args]
    ELSE LET r == FieldUnpack(Head(spec)[2], octets)
         IN  IF r.exc # None THEN [exc |-> r.exc, args |-> args]
             ELSE UnpackFields(
                      Tail(spec), r.octets,
                      Append(args, <<Head(spec)[1],
                                     Lexical(Head(spec)[2], r.val)>>))

\* Message.unpack from the octets of a payload
MessageUnpackOctets(octets) ==
    LET r == UnpackFields(MessageSpec, octets, <<>>)
    IN  IF r.exc # None THEN [exc |-> r.exc, self |-> <<>>]
        ELSE Message(r.args)

-----------------------------------------------------------------------------
(* The forwarding database (bridge.py) and the packet port (dhcpio.py) *)

\* FDB._refresh: the keys of _macs are '{:02x}:...' strings
FdbMacs(bridge) ==
    [k \in {HexStringDecode(m) : m \in DOMAIN Brforward[bridge]} |->
        [ifname |-> Brforward[bridge][HexStringEncode(k)]]]

\* FDB.lookup / Ifinfo.lookup: <<>> for None
FdbLookup(bridge, mac) ==
    IF mac \in DOMAIN FdbMacs(bridge) THEN <<FdbMacs(bridge)[mac]>> ELSE <<>>

\* Ifinfo.__init__: the fields of a port; id is its capture file descriptor
Ifinfo(id, iface, dst, trusted) ==
    [id |-> id, iface |-> iface, dst |-> dst, trusted |-> trusted,
     ipaddr |-> HostIPv4[iface], mac |-> HostMac[iface]]

\* bridge.py and cps_helpers.py
DHCPS == 67
DHCPC == 68
UDP == 17

\* get_ports: the member ports of each bridge, the trusted port among them
BridgePorts ==
    [n \in IfNames |-> IF n = "br100" THEN <<"e101", "e102", "eth0">>
                       ELSE <<"e201", "eth0">>]

\* line 53, `ifaces != exclude`: the list built so far against a port name;
\* a list never equals a string
ListIsName(indexes, name) == FALSE

\* _add_filter lines 51-54: the ports the rule matches
RECURSIVE InPorts(_, _, _)
InPorts(ports, exclude, indexes) ==
    IF ports = <<>> THEN indexes
    ELSE InPorts(Tail(ports), exclude,
                 IF exclude # None /\ ~ListIsName(indexes, exclude)
                 THEN Append(indexes, Head(ports)) ELSE indexes)

\* add_filter / _add_filter: the ACL entry created
add_filter(bridge, udp_port, prio, entry_name, exclude) ==
    [entry_id |-> entry_name, priority |-> prio, ip_protocol |-> UDP,
     l4_dst_port |-> udp_port,
     in_ports |-> InPorts(BridgePorts[bridge], exclude, <<>>),
     action |-> "TRAP_TO_CPU"]

\* Filters.setup: the two entries of a bridge
FiltersSetup(ifname, trusted) ==
    {add_filter(ifname, DHCPS, 512, <<"snoop-dhcps", ifname>>, trusted),
     add_filter(ifname, DHCPC, 512, <<"snoop-dhcpc", ifname>>, trusted)}

\* Ifinfo.__init__ lines 88-89: the trap rules a port installs
IfinfoFilters(self) ==
    IF self.dst = None THEN FiltersSetup(self.iface, self.trusted) ELSE {}

\* Ifinfo.__init__ raises ValueError unless exactly one mode is given
IfinfoRejects(dst, trusted) ==
    \/ (trusted = None /\ dst = None)
    \/ (trusted # None /\ dst # None)

\* Ifinfo._send: the frame it builds and the handle it writes it to.  An
\* address of <<>> is None and is replaced by the port's own.  Building the
\* frame raises if the source address is still None, the write raises if
\* the port has no trusted socket (to_server) or if the handle reports an
\* error (~ok): a frame that reached a handle is in writes.
IfinfoSend(self, data, ipaddr, mac, to_server, ok) ==
    LET ip == IF ipaddr = <<>>
              THEN (IF self.ipaddr = None THEN <<>> ELSE inet_pton(self.ipaddr))
              ELSE ipaddr
        hw == IF mac = <<>> THEN self.mac ELSE mac
        frame == [path |-> IF to_server THEN "upstream" ELSE "client",
                  ifinfo |-> <<self>>,
                  eth_src |-> hw,
                  eth_dst |-> ETH_BROADCAST,
                  ip_src |-> ip,
                  ip_dst |-> inet_pton(IP_BROADCAST),
                  sport |-> IF to_server THEN DHCPCLIENT ELSE DHCPSERVER,
                  dport |-> IF to_server THEN DHCPSERVER ELSE DHCPCLIENT,
                  data |-> data]
    IN  IF ip = <<>> THEN [writes |-> <<>>, exc |-> "ValueError"]
        ELSE IF to_server /\ self.trusted = None
        THEN [writes |-> <<>>, exc |-> "AttributeError"]
        ELSE [writes |-> <<frame>>, exc |-> IF ok THEN None ELSE "IOError"]

\* udp_sock.sendto(packet, (ifinfo.dst, DHCPSERVER))
UdpSendto(data, dst, port, ok) ==
    [writes |-> <<[path |-> "udp",
                   ifinfo |-> <<>>,
                   eth_src |-> <<>>,
                   eth_dst |-> <<>>,
                   ip_src |-> <<>>,
                   ip_dst |-> inet_pton(dst),
                   sport |-> DHCPSERVER,
                   dport |-> port,
                   data |-> data]>>,
     exc |-> IF ok THEN None ELSE "IOError"]

-----------------------------------------------------------------------------
(* The traffic: UDP payloads as they arrive *)

Payload(op, xid, giaddr, hlen, chaddr, options) ==
    [short |-> FALSE, op |-> op, hlen |-> hlen, xid |-> xid,
     giaddr |-> giaddr, chaddr |-> chaddr, options |-> options]

\* the 16 octets of chaddr: the MAC, then octets that hlen = 6 leaves out
Chaddr(mac) == mac \o <<9>> \o Zeros(CHADDR_MAX - 7)

GoodOptions == <<53, 1, 1, 255>>

\* well-formed option fields: no End, Pad around an option, an option 82
\* already there, octets after End
OptionOctets ==
    { <<53, 1, 1>>, <<0, 53, 1, 3, 0, 255>>,
      <<82, 3, 1, 1, 65, 255>>, <<12, 0, 255, 53, 1>> }

\* option fields that end inside a TLV
TruncatedOptions == { <<53>>, <<53, 2, 1>> }

\* a client's request with giaddr empty for either xid, a relayed one with
\* giaddr set from a client the bridges have not learnt, the option fields,
\* a chaddr of 16 octets
Requests ==
    {Payload(BOOTREQUEST, xid, inet_pton("0.0.0.0"), 6, Chaddr(MacA),
             GoodOptions) : xid \in Xids}
    \cup {Payload(BOOTREQUEST, 66, inet_pton("192.168.98.1"), 6, Chaddr(MacB),
                  GoodOptions)}
    \cup {Payload(BOOTREQUEST, 66, inet_pton("0.0.0.0"), 6, Chaddr(MacA), o) :
             o \in OptionOctets}
    \cup {Payload(BOOTREQUEST, 66, inet_pton("0.0.0.0"), CHADDR_MAX,
                  Chaddr(MacA), GoodOptions)}

Replies ==
    {Payload(BOOTREPLY, xid, inet_pton("192.168.1.2"), 6, Chaddr(MacA),
             GoodOptions) : xid \in Xids}

ShortPayload ==
    [Payload(BOOTREQUEST, 66, inet_pton("0.0.0.0"), 6, Chaddr(MacA), <<>>)
        EXCEPT !.short = TRUE]

Malformed ==
    {Payload(op, 66, inet_pton("0.0.0.0"), 6, Chaddr(MacA), GoodOptions) :
        op \in {0, 3}}
    \cup {Payload(BOOTREQUEST, 66, inet_pton("0.0.0.0"), hlen, Chaddr(MacA),
                  GoodOptions) : hlen \in {0, 17}}
    \cup {Payload(BOOTREQUEST, 66, inet_pton("0.0.0.0"), 6, Chaddr(MacA), o) :
             o \in TruncatedOptions}
    \cup {Payload(BOOTREPLY, 66, inet_pton("192.168.1.2"), 6, Chaddr(MacA),
                  <<53, 2, 1>>)}
    \cup {ShortPayload}

Payloads == Requests \cup Replies \cup Malformed

\* what the UDP socket receives: replies, the requests of a client that
\* reach port 67 of the host, payloads that do not parse
Datagrams ==
    Replies \cup Malformed
    \cup {Payload(BOOTREQUEST, xid, inet_pton("0.0.0.0"), 6, Chaddr(MacA),
                  GoodOptions) : xid \in Xids}

\* DhcpMessage.unpack of every payload of the traffic
Unpacked == [packet \in Payloads |-> MessageUnpack(packet)]

\* Ifinfo.get_next: <<>> for None, else the payload and the frame's sources
Frames == {<<>>} \cup
          {<<[data |-> d, src_ip |-> ClientIp, src_mac |-> ClientMac]>> :
              d \in Payloads}

\* configuration changes: exactly one of the two attributes
Changes ==
    {[name |-> n, dhcp_server |-> d, trusted |-> None] :
        n \in IfNames, d \in Servers}
    \cup {[name |-> n, dhcp_server |-> None, trusted |-> t] :
             n \in IfNames, t \in TrustedPorts}

-----------------------------------------------------------------------------
(* Agent.process_packet (opx_dhcp.py) *)

NoReturn == [packet |-> <<>>, ifinfo |-> <<>>, src_ip |-> <<>>,
             src_mac |-> <<>>, relay |-> DO_NOT_RELAY]

\* dict item assignment and deletion on _state
Put(st, xid, entry) ==
    [x \in DOMAIN st \cup {xid} |-> IF x = xid THEN entry ELSE st[x]]
Del(st, xids) == [x \in DOMAIN st \ xids |-> st[x]]

\* line 261, self._state[parsed['xid']]: <<>> where it raises KeyError.
\* LookupAny is the faulty variant that answers with any entry of the table.
LookupAny(st, xid) ==
    IF DOMAIN st # {} THEN <<st[CHOOSE x \in DOMAIN st : TRUE]>> ELSE <<>>

Lookup(st, xid) == IF xid \in DOMAIN st THEN <<st[xid]>> ELSE <<>>

\* line 267, del self._state[parsed["xid"]].  ForgetNothing is the faulty
\* variant that keeps the entry.
ForgetNothing(st, xid) == st

Forget(st, xid) == Del(st, {xid})

\* lines 285-297: giaddr for relay mode, the action, the packed message.
\* RewriteKeepsGiaddr is the faulty variant that leaves giaddr as received.
RewriteKeepsGiaddr(parsed, ifinfo, src_ip, src_mac, st) ==
    LET udp == ifinfo.dst # None /\ ifinfo.ipaddr # None
        relay == IF parsed.op # BOOTREQUEST THEN DO_NOT_RELAY
                 ELSE IF udp THEN UDP_RELAY
                 ELSE MITM_RELAY
    IN  [exc |-> None,
         state |-> st,
         ret |-> [packet |-> <<MessagePack(parsed)>>, ifinfo |-> <<ifinfo>>,
                  src_ip |-> src_ip, src_mac |-> src_mac, relay |-> relay]]

Rewrite(parsed, ifinfo, src_ip, src_mac, st) ==
    LET udp == ifinfo.dst # None /\ ifinfo.ipaddr # None
        msg == IF udp /\ parsed.op = BOOTREQUEST
               THEN [parsed EXCEPT !.giaddr = ifinfo.ipaddr]
               ELSE parsed
        relay == IF parsed.op # BOOTREQUEST THEN DO_NOT_RELAY
                 ELSE IF udp THEN UDP_RELAY
                 ELSE MITM_RELAY
    IN  [exc |-> None,
         state |-> st,
         ret |-> [packet |-> <<MessagePack(msg)>>, ifinfo |-> <<ifinfo>>,
                  src_ip |-> src_ip, src_mac |-> src_mac, relay |-> relay]]

\* lines 274-283: a BOOTREQUEST captured on a port, with the result of the
\* FDB lookup
Request(parsed, ifinfo, src_ip, src_mac, st, port) ==
    IF port # <<>>
    THEN LET enc == encode_options(parsed,
                        <<[option |-> "Relay Agent Information",
                           value |-> ("circuit-id" :> Latin1[port[1].ifname])]>>)
         IN  IF enc.exc # None
             THEN [exc |-> enc.exc, state |-> st, ret |-> NoReturn]
             ELSE Rewrite(enc.msg, ifinfo, src_ip, src_mac, st)
    ELSE Rewrite(parsed, ifinfo, src_ip, src_mac, st)

\* lines 259-271: a reply from the UDP socket, with the result of the lookup
Correlated(parsed, hit, st) ==
    IF hit # <<>>
    THEN Rewrite([parsed EXCEPT !.giaddr = "0.0.0.0"], hit[1].ifinfo,
                 <<>>, <<>>, Forget(st, parsed.xid))
    ELSE [exc |-> None, state |-> st, ret |-> NoReturn]

\* lines 253-283, for a message that parsed.  DecideForgetful is the faulty
\* variant in which a reply captured on a port takes the entry of its xid
\* out of the table.
DecideForgetful(parsed, ifinfo, src_ip, src_mac, st, t) ==
    LET drop == [exc |-> None, state |-> st, ret |-> NoReturn]
    IN  IF ifinfo = <<>>
        THEN IF parsed.op = BOOTREQUEST THEN drop
             ELSE Correlated(parsed, Lookup(st, parsed.xid), st)
        ELSE IF parsed.op = BOOTREQUEST
        THEN Request(parsed, ifinfo[1], src_ip, src_mac,
                     Put(st, parsed.xid,
                         [ifinfo |-> ifinfo[1], src_ip |-> src_ip,
                          src_mac |-> src_mac, stamp |-> t]),
                     FdbLookup(ifinfo[1].iface, parsed.chaddr))
        ELSE Rewrite(parsed, ifinfo[1], src_ip, src_mac,
                     Forget(st, parsed.xid))

Decide(parsed, ifinfo, src_ip, src_mac, st, t) ==
    LET drop == [exc |-> None, state |-> st, ret |-> NoReturn]
    IN  IF ifinfo = <<>>
        THEN IF parsed.op = BOOTREQUEST THEN drop
             ELSE Correlated(parsed, Lookup(st, parsed.xid), st)
        ELSE IF parsed.op = BOOTREQUEST
        THEN Request(parsed, ifinfo[1], src_ip, src_mac,
                     Put(st, parsed.xid,
                         [ifinfo |-> ifinfo[1], src_ip |-> src_ip,
                          src_mac |-> src_mac, stamp |-> t]),
                     FdbLookup(ifinfo[1].iface, parsed.chaddr))
        ELSE Rewrite(parsed, ifinfo[1], src_ip, src_mac, st)

\* lines 247-252, for the result of Message.unpack
Parsed(unpacked, ifinfo, src_ip, src_mac, st, t) ==
    IF unpacked.exc = "ValueError"
    THEN [exc |-> None, state |-> st, ret |-> NoReturn]
    ELSE IF unpacked.exc # None
    THEN [exc |-> unpacked.exc, state |-> st, ret |-> NoReturn]
    ELSE Decide(unpacked.msg, ifinfo, src_ip, src_mac, st, t)

\* Agent.process_packet: ifinfo is <<>> for the UDP socket, t is time.time()
process_packet(packet, ifinfo, src_ip, src_mac, st, t) ==
    Parsed(Unpacked[packet], ifinfo, src_ip, src_mac, st, t)

\* main_loop lines 318-324: the write a returned packet leads to.
\* DispatchToClient is the faulty variant that uses send where the code uses
\* mitm_send.
DispatchToClient(ret, ok) ==
    IF ret.packet = <<>> THEN [writes |-> <<>>, exc |-> None]
    ELSE IF ret.relay = UDP_RELAY
    THEN UdpSendto(ret.packet[1], ret.ifinfo[1].dst, DHCPSERVER, ok)
    ELSE IfinfoSend(ret.ifinfo[1], ret.packet[1], ret.src_ip, ret.src_mac,
                    FALSE, ok)

Dispatch(ret, ok) ==
    IF ret.packet = <<>> THEN [writes |-> <<>>, exc |-> None]
    ELSE IF ret.relay = DO_NOT_RELAY
    THEN IfinfoSend(ret.ifinfo[1], ret.packet[1], ret.src_ip, ret.src_mac,
                    FALSE, ok)
    ELSE IF ret.relay = UDP_RELAY
    THEN UdpSendto(ret.packet[1], ret.ifinfo[1].dst, DHCPSERVER, ok)
    ELSE IfinfoSend(ret.ifinfo[1], ret.packet[1], ret.src_ip, ret.src_mac,
                    TRUE, ok)

\* Agent._run_expiry.  run_expiry_late is the faulty variant that keeps an
\* entry for one more second, run_expiry_early the one that deletes an entry
\* of age TIMEOUT.
run_expiry_late(st, t) ==
    Del(st, {xid \in DOMAIN st : t - st[xid].stamp > TIMEOUT + 1})

run_expiry_early(st, t) ==
    Del(st, {xid \in DOMAIN st : t - st[xid].stamp >= TIMEOUT})

run_expiry(st, t) ==
    Del(st, {xid \in DOMAIN st : t - st[xid].stamp > TIMEOUT})

-----------------------------------------------------------------------------
(* Configuration transactions (opx_dhcp.py).  A change is a record of the  *)
(* interface name and the two attributes, None where the change has none.  *)

Names(cfg) == {cfg[i].name : i \in 1..Len(cfg)}

\* Agent._add_change: dhcp-server if the change has it, else trusted
add_change(iface, change) ==
    IF change.dhcp_server # None
    THEN [iface EXCEPT !.dhcp_server = change.dhcp_server]
    ELSE [iface EXCEPT !.trusted = change.trusted]

\* lines 141-145: the KeyError of the second lookup leaves _add_change
add_change_raises(change) ==
    change.dhcp_server = None /\ change.trusted = None

\* Agent._create: the new pending configuration, <<>> where it returns False
\* or raises
create(change, active) ==
    LET old == IF active = <<>> THEN <<>> ELSE active[1]
    IN  IF change.name \in Names(old) THEN <<>>
        ELSE IF add_change_raises(change) THEN <<>>
        ELSE <<Append(old, add_change([name |-> change.name,
                                       dhcp_server |-> None,
                                       trusted |-> None], change))>>

\* Agent._delete: the new pending configuration, <<>> where it returns False
delete(change, active) ==
    IF change.name \in Names(active[1])
    THEN <<SelectSeq(active[1], LAMBDA iface : iface.name # change.name)>>
    ELSE <<>>

-----------------------------------------------------------------------------
(* Reconfiguration: Agent._process_config with DHCPIo.add_if and del_if.   *)
(* io is the record of the fields they touch.                              *)

RECURSIVE ConfigAdd(_, _)
\* lines 204-220: the loop over the active configuration; io.failing holds
\* the interfaces on which Ifinfo() raises (pcap, the trusted socket, CPS)
ConfigAdd(cfg, io) ==
    IF cfg = <<>> THEN io
    ELSE LET iface == Head(cfg)
             ifname == iface.name
             id == io.opened + 1
             ifinfo == Ifinfo(id, ifname, iface.dhcp_server, iface.trusted)
         IN  IF ifname \in DOMAIN io.ifaces
             THEN ConfigAdd(Tail(cfg), [io EXCEPT !.old_keys = @ \ {ifname}])
             ELSE IF IfinfoRejects(iface.dhcp_server, iface.trusted)
                     \/ ifname \in io.failing
             THEN ConfigAdd(Tail(cfg), io)
             ELSE ConfigAdd(Tail(cfg),
                      [io EXCEPT !.ifaces = Put(@, ifname, ifinfo),
                                 !.ifaces_by_fd = Put(@, id, ifinfo),
                                 !.epfd = @ \cup {id},
                                 !.opened = id])

\* lines 221-224: unregister and del_if for what is left in old_keys.
\* ConfigDelNothing is the faulty variant that closes nothing.
ConfigDelNothing(io) == io

ConfigDel(io) ==
    [io EXCEPT !.epfd = @ \ {io.ifaces[n].id : n \in io.old_keys},
               !.ifaces_by_fd = Del(@, {io.ifaces[n].id : n \in io.old_keys}),
               !.ifaces = Del(@, io.old_keys)]

\* Agent._process_config.  process_config_abort is the faulty variant in
\* which the first failing open ends the reconciliation.
process_config_abort(cfg, io) ==
    IF io.failing \cap (Names(cfg) \ DOMAIN io.ifaces) # {} THEN io
    ELSE ConfigDel(ConfigAdd(cfg, [io EXCEPT !.old_keys = DOMAIN io.ifaces]))

process_config(cfg, io) ==
    ConfigDel(ConfigAdd(cfg, [io EXCEPT !.old_keys = DOMAIN io.ifaces]))

-----------------------------------------------------------------------------
(* The state machine *)

NoLast == [ev |-> <<>>, ret |-> NoReturn, writes |-> <<>>, exc |-> None]

Init ==
    /\ pc = "poll"
    /\ now = 0
    /\ state = <<>>
    /\ active_config = <<>>
    /\ pending_config = <<>>
    /\ ifaces = <<>>
    /\ ifaces_by_fd = <<>>
    /\ epfd = {}
    /\ opened = 0
    /\ last = NoLast

io_vars == <<ifaces, ifaces_by_fd, epfd, opened>>
cfg_vars == <<active_config, pending_config>>

\* main_loop line 303: poll returns, up to a second or more later
Poll ==
    /\ pc = "poll"
    /\ \E t \in Instants : t >= now /\ now' = t
    /\ pc' = "drain"
    /\ last' = NoLast
    /\ UNCHANGED <<state, cfg_vars, io_vars>>

\* the loop body from process_packet on, for one event; the write of a
\* returned packet succeeds or raises
Body(ev, packet, ifinfo, src_ip, src_mac) ==
    \E r \in {process_packet(packet, ifinfo, src_ip, src_mac, state, now)} :
        \E ok \in IF r.ret.packet = <<>> THEN {TRUE} ELSE BOOLEAN :
           LET sent == IF r.exc = None THEN Dispatch(r.ret, ok)
                       ELSE [writes |-> <<>>, exc |-> r.exc]
               exc == sent.exc
           IN  /\ state' = r.state
               /\ last' = [ev |-> <<ev>>, ret |-> r.ret,
                           writes |-> sent.writes, exc |-> exc]
               /\ pc' = IF exc = None THEN "sent" ELSE "crashed"

\* main_loop lines 305-324 for a ready capture descriptor
HandlePort ==
    /\ pc = "drain"
    /\ \E fd \in epfd, frame \in Frames :
          LET ifinfo == ifaces_by_fd[fd]
              ev == [fd |-> fd, frame |-> frame]
          IN  IF frame = <<>>
              THEN /\ last' = [ev |-> <<ev>>, ret |-> NoReturn,
                               writes |-> <<>>, exc |-> "TypeError"]
                   /\ pc' = "crashed"
                   /\ UNCHANGED state
              ELSE Body(ev, frame[1].data, <<ifinfo>>, frame[1].src_ip,
                        frame[1].src_mac)
    /\ UNCHANGED <<now, cfg_vars, io_vars>>

\* main_loop lines 305-324 for the UDP socket
HandleUdp ==
    /\ pc = "drain"
    /\ \E data \in Datagrams :
          Body([fd |-> 0, frame |-> <<[data |-> data]>>], data, <<>>, <<>>,
               <<>>)
    /\ UNCHANGED <<now, cfg_vars, io_vars>>

\* the for loop goes to its next event: lines 306-309 reset the locals
Continue ==
    /\ pc = "sent"
    /\ pc' = "drain"
    /\ last' = NoLast
    /\ UNCHANGED <<now, state, cfg_vars, io_vars>>

\* the for loop over the ready events ends
EndDrain ==
    /\ pc = "drain"
    /\ pc' = "config"
    /\ UNCHANGED <<now, state, cfg_vars, io_vars, last>>

\* main_loop lines 325-327
Reconfigure ==
    /\ pc = "config"
    /\ pc' = "expiry"
    /\ IF pending_config # <<>>
       THEN LET io == process_config(pending_config[1],
                          [ifaces |-> ifaces, ifaces_by_fd |-> ifaces_by_fd,
                           epfd |-> epfd, opened |-> opened, old_keys |-> {},
                           failing |-> {}])
            IN  /\ active_config' = pending_config
                /\ pending_config' = <<>>
                /\ ifaces' = io.ifaces
                /\ ifaces_by_fd' = io.ifaces_by_fd
                /\ epfd' = io.epfd
                /\ opened' = io.opened
       ELSE UNCHANGED <<cfg_vars, io_vars>>
    /\ UNCHANGED <<now, state, last>>

\* main_loop line 328
RunExpiry ==
    /\ pc = "expiry"
    /\ pc' = "poll"
    /\ state' = run_expiry(state, now)
    /\ UNCHANGED <<now, cfg_vars, io_vars, last>>

\* the opens a pending configuration leads to stay within MaxOpens
WithinOpens(cfg) ==
    opened + Cardinality(Names(cfg) \ DOMAIN ifaces) <= MaxOpens

\* The transaction callbacks read _active_config and write _pending_config,
\* which the loop touches in Reconfigure only: a callback that arrives
\* anywhere between two runs of Reconfigure is placed right before the
\* second.

\* the transaction callback with operation 'create'
Create ==
    /\ pc = "config"
    /\ \E change \in Changes :
          LET new == create(change, active_config)
          IN  /\ new # <<>> => WithinOpens(new[1])
              /\ pending_config' = IF new # <<>> THEN new ELSE pending_config
    /\ UNCHANGED <<pc, now, state, active_config, io_vars, last>>

\* the transaction callback with operation 'delete'
Delete ==
    /\ pc = "config"
    /\ active_config # <<>>
    /\ \E name \in IfNames :
          LET new == delete([name |-> name], active_config)
          IN  pending_config' = IF new # <<>> THEN new ELSE pending_config
    /\ UNCHANGED <<pc, now, state, active_config, io_vars, last>>

Next ==
    \/ Poll
    \/ HandlePort
    \/ HandleUdp
    \/ Continue
    \/ EndDrain
    \/ Reconfigure
    \/ RunExpiry
    \/ Create
    \/ Delete

Spec == Init /\ [][Next]_vars

-----------------------------------------------------------------------------
(* The configuration on its own: the transaction callbacks with every      *)
(* shape of change, and loop iterations without traffic in which the       *)
(* opening of a port can fail.                                             *)

\* Agent._set: the new pending configuration, <<>> where it returns False or
\* raises
set(change, active) ==
    LET old == IF active = <<>> THEN <<>> ELSE active[1]
        hits == {i \in 1..Len(old) : old[i].name = change.name}
    IN  IF hits = {} \/ add_change_raises(change) THEN <<>>
        ELSE LET i == CHOOSE j \in hits : \A k \in hits : j <= k
             IN  <<[old EXCEPT ![i] = add_change([name |-> old[i].name,
                                                  dhcp_server |-> None,
                                                  trusted |-> None], change)]>>

\* Agent.transaction: what the callback returns or raises, and the pending
\* configuration it assigns (<<>> where it assigns none)
transaction(op, change, active) ==
    LET old == IF active = <<>> THEN <<>> ELSE active[1]
        known == change.name \in Names(old)
        new == CASE op = "create" -> create(change, active)
                 [] op = "set" -> set(change, active)
                 [] op = "delete" ->
                       IF active = <<>> THEN <<>> ELSE delete(change, active)
        exc == CASE op = "create" ->
                       IF ~known /\ add_change_raises(change)
                       THEN "KeyError" ELSE None
                 [] op = "set" ->
                       IF known /\ add_change_raises(change)
                       THEN "KeyError" ELSE None
                 [] op = "delete" ->
                       IF active = <<>> THEN "TypeError" ELSE None
    IN  [exc |-> exc, ret |-> new # <<>>, pending |-> new]

\* the changes a client can send: either attribute, both, or neither
CfgChanges ==
    {[name |-> n, dhcp_server |-> d, trusted |-> t] :
        n \in IfNames, d \in Servers \cup {None},
        t \in TrustedPorts \cup {None}}

\* nothing has been called yet
NoTransaction ==
    [op |-> "none", change |-> <<>>, ret |-> FALSE, exc |-> None,
     failing |-> {}, swapped |-> FALSE]

\* Agent.__init__ and DHCPIo.__init__
InitCfg ==
    /\ pc = "poll"
    /\ now = 0
    /\ state = <<>>
    /\ active_config = <<>>
    /\ pending_config = <<>>
    /\ ifaces = <<>>
    /\ ifaces_by_fd = <<>>
    /\ epfd = {}
    /\ opened = 0
    /\ last = NoTransaction

\* trans_cb for one change
Transact(op, change) ==
    /\ pc = "poll"
    /\ \E r \in {transaction(op, change, active_config)} :
          /\ pending_config' =
                IF r.pending # <<>> THEN r.pending ELSE pending_config
          /\ last' = [op |-> op, change |-> change, ret |-> r.ret,
                      exc |-> r.exc, failing |-> {}, swapped |-> FALSE]
    /\ UNCHANGED <<pc, now, state, active_config, io_vars>>

CfgCreate == \E change \in CfgChanges : Transact("create", change)

CfgSet == \E change \in CfgChanges : Transact("set", change)

CfgDelete == \E change \in CfgChanges : Transact("delete", change)

\* one iteration of main_loop with no ready event: lines 325-328, where
\* Ifinfo() raises on the interfaces in failing
CfgTick ==
    /\ pc = "poll"
    /\ \E failing \in SUBSET IfNames :
          /\ last' = [op |-> "tick", change |-> <<>>, ret |-> TRUE,
                      exc |-> None, failing |-> failing,
                      swapped |-> pending_config # <<>>]
          /\ IF pending_config # <<>>
             THEN /\ WithinOpens(pending_config[1])
                  /\ \E io \in {process_config(pending_config[1],
                               [ifaces |-> ifaces,
                                ifaces_by_fd |-> ifaces_by_fd,
                                epfd |-> epfd, opened |-> opened,
                                old_keys |-> {}, failing |-> failing])} :
                        /\ active_config' = pending_config
                        /\ pending_config' = <<>>
                        /\ ifaces' = io.ifaces
                        /\ ifaces_by_fd' = io.ifaces_by_fd
                        /\ epfd' = io.epfd
                        /\ opened' = io.opened
             ELSE UNCHANGED <<cfg_vars, io_vars>>
    /\ state' = run_expiry(state, now)
    /\ UNCHANGED <<pc, now>>

NextCfg ==
    \/ CfgCreate
    \/ CfgSet
    \/ CfgDelete
    \/ CfgTick

SpecCfg == InitCfg /\ [][NextCfg]_vars

-----------------------------------------------------------------------------
(* The hand-over of the pending configuration on its own: the statement of *)
(* main_loop at lines 325-327 taken one attribute access at a time, with   *)
(* the SIGUSR1 handler and the transaction callback running between any    *)
(* two of them.  The agent is started in mock mode.                        *)

\* the contents of the mock configuration file
MockFiles ==
    {<<[name |-> "br100", dhcp_server |-> "10.0.0.1", trusted |-> None]>>,
     <<[name |-> "br200", dhcp_server |-> None, trusted |-> "eth0"]>>,
     <<>>}

\* no callback is running and nothing is on the loop's stack
NoHandoff == [op |-> "none", loaded |-> <<>>, cb |-> <<>>]

\* Agent.__init__ with mock: the file is read and made active at once
InitHandoff ==
    /\ pc = "poll"
    /\ now = 0
    /\ state = <<>>
    /\ pending_config = <<>>
    /\ last = NoHandoff
    /\ \E file \in MockFiles :
          \E io \in {process_config(file,
                        [ifaces |-> <<>>, ifaces_by_fd |-> <<>>,
                         epfd |-> {}, opened |-> 0,
                         old_keys |-> {}, failing |-> {}])} :
             /\ active_config = <<file>>
             /\ ifaces = io.ifaces
             /\ ifaces_by_fd = io.ifaces_by_fd
             /\ epfd = io.epfd
             /\ opened = io.opened

\* line 325: the test of _pending_config; without a pending configuration
\* the iteration ends with the expiry scan
HandoffTest ==
    /\ pc = "poll"
    /\ pc' = IF pending_config # <<>> THEN "load" ELSE "poll"
    /\ state' = IF pending_config # <<>> THEN state
                ELSE run_expiry(state, now)
    /\ last' = [last EXCEPT !.op = "test"]
    /\ UNCHANGED <<now, cfg_vars, io_vars>>

\* line 326, right-hand side: None and the value of _pending_config go on
\* the stack
HandoffLoad ==
    /\ pc = "load"
    /\ pc' = "clear"
    /\ last' = [last EXCEPT !.op = "load", !.loaded = pending_config]
    /\ UNCHANGED <<now, state, cfg_vars, io_vars>>

\* line 326, first target: _pending_config = None
HandoffClear ==
    /\ pc = "clear"
    /\ pc' = "activate"
    /\ pending_config' = <<>>
    /\ last' = [last EXCEPT !.op = "clear"]
    /\ UNCHANGED <<now, state, active_config, io_vars>>

\* line 326, second target, and lines 327-328: _active_config takes the
\* loaded value, the ports are reconciled (every port opens) and the expiry
\* scan runs
HandoffActivate ==
    /\ pc = "activate"
    /\ pc' = "poll"
    /\ last.loaded # <<>>
    /\ WithinOpens(last.loaded[1])
    /\ \E io \in {process_config(last.loaded[1],
                     [ifaces |-> ifaces, ifaces_by_fd |-> ifaces_by_fd,
                      epfd |-> epfd, opened |-> opened,
                      old_keys |-> {}, failing |-> {}])} :
          /\ active_config' = last.loaded
          /\ ifaces' = io.ifaces
          /\ ifaces_by_fd' = io.ifaces_by_fd
          /\ epfd' = io.epfd
          /\ opened' = io.opened
    /\ state' = run_expiry(state, now)
    /\ last' = [last EXCEPT !.op = "activate", !.loaded = <<>>]
    /\ UNCHANGED <<now, pending_config>>

\* mock_callback: the handler of SIGUSR1 runs between two instructions of
\* the loop and assigns what the file holds
MockReload ==
    /\ \E file \in MockFiles : pending_config' = <<file>>
    /\ last' = [last EXCEPT !.op = "mock"]
    /\ UNCHANGED <<pc, now, state, active_config, io_vars>>

\* trans_cb on the thread of the CPS library: the handler reads
\* _active_config and builds the new configuration
CallbackBegin ==
    /\ last.cb = <<>>
    /\ \E op \in {"create", "set", "delete"}, change \in Changes :
          last' = [last EXCEPT
                      !.op = "begin",
                      !.cb = <<transaction(op, change, active_config)>>]
    /\ UNCHANGED <<pc, now, state, cfg_vars, io_vars>>

\* trans_cb, continued: the handler assigns _pending_config, if it accepted
\* the change, and returns
CallbackReturn ==
    /\ last.cb # <<>>
    /\ pending_config' = IF last.cb[1].pending # <<>> THEN last.cb[1].pending
                         ELSE pending_config
    /\ last' = [last EXCEPT !.op = "return", !.cb = <<>>]
    /\ UNCHANGED <<pc, now, state, active_config, io_vars>>

NextHandoff ==
    \/ HandoffTest
    \/ HandoffLoad
    \/ HandoffClear
    \/ HandoffActivate
    \/ MockReload
    \/ CallbackBegin
    \/ CallbackReturn

SpecHandoff == InitHandoff /\ [][NextHandoff]_vars

-----------------------------------------------------------------------------
(* The message class on its own: a message is built from the arguments of  *)
(* a caller, then packed and unpacked again, or updated.                   *)

Int_(val) == [py |-> "int", val |-> val]
Str(val) == [py |-> "str", val |-> val]

\* chaddr as callers write it: 1e:4b, 1E:4B, e:b, 1e, the empty string,
\* 1e:4b:ad:91:68:3a and 1e:4b:ad:91:68:3a:00
ChaddrForms ==
    {<<<<1, 14>>, <<4, 11>>>>,
     <<<<1, 30>>, <<4, 27>>>>,
     <<<<14>>, <<11>>>>,
     <<<<1, 14>>>>,
     <<>>,
     <<<<1, 14>>, <<4, 11>>, <<10, 13>>, <<9, 1>>, <<6, 8>>, <<3, 10>>>>,
     <<<<1, 14>>, <<4, 11>>, <<10, 13>>, <<9, 1>>, <<6, 8>>, <<3, 10>>,
       <<0, 0>>>>}

\* sname as callers write it: '', 'ab', 'a\0b', 'ab\0', and 63 and 64
\* characters
SnameForms ==
    {<<>>, <<97, 98>>, <<97, 0, 98>>, <<97, 98, 0>>,
     [i \in 1..63 |-> 97], [i \in 1..64 |-> 97]}

\* file as callers write it: '', 'x', 'x\0y'
FileForms == {<<>>, <<120>>, <<120, 0, 121>>}

\* options as callers write them: the end alone; a message type; a pad and
\* a message type without the end; one option whose octets begin with the
\* magic cookie
OptionForms ==
    {<<[tag |-> end]>>,
     <<[tag |-> 53, length |-> 1, value |-> <<3>>], [tag |-> end]>>,
     <<[tag |-> pad], [tag |-> 53, length |-> 1, value |-> <<3>>]>>,
     <<[tag |-> 99, length |-> 130,
        value |-> <<83, 99, 1, 126>> \o Zeros(126)]>>}

\* hlen as callers write it
HlenForms == <<Int_(2), Str("0x06")>>

\* the arguments of Message(...): every field of the spec
MessageArgs(hlen, xid, chaddr, sname, file, magic, options) ==
     <<<<"op", Int_(BOOTREQUEST)>>, <<"htype", Int_(1)>>, <<"hlen", hlen>>,
       <<"hops", Int_(0)>>, <<"xid", Int_(xid)>>, <<"secs", Int_(0)>>,
       <<"flags", Int_(32768)>>, <<"ciaddr", Str("0.0.0.0")>>,
       <<"yiaddr", Str("192.168.1.2")>>, <<"siaddr", Str("10.0.0.1")>>,
       <<"giaddr", Str("192.168.98.1")>>, <<"chaddr", Str(chaddr)>>,
       <<"sname", Str(sname)>>, <<"file", Str(file)>>,
       <<"cookie", [py |-> "bool", val |-> magic]>>,
       <<"options", [py |-> "tuple", val |-> options]>>>>

\* the arguments of update(...): accepted ones, a value that is rejected
\* after one that is accepted, an unknown key, a value of a wrong type
MessageUpdates ==
    <<<<<<"hlen", Int_(6)>>>>,
     <<<<"hlen", Str("0b10")>>, <<"giaddr", Str("10.0.0.1")>>>>,
     <<<<"xid", Int_(66)>>, <<"op", Int_(3)>>>>,
     <<<<"xid", Int_(66)>>, <<"circuit-id", Int_(1)>>>>,
     <<<<"xid", Int_(66)>>, <<"giaddr", [py |-> "NoneType"]>>>>,
     <<<<"options", [py |-> "tuple",
                     val |-> <<[tag |-> end],
                               [tag |-> pad, length |-> 0]>>]>>,
       <<"secs", Str("0x06")>>>>,
     <<<<"hlen", Str("six")>>>>,
     <<<<"sname", Str(<<97, 98, 0>>)>>,
       <<"file", Str([i \in 1..128 |-> 97])>>>>>>

\* the pairs of self[key] = val: a smaller hlen, a longer chaddr, a value
\* that is rejected
MessageItems ==
    <<<<"hlen", Int_(1)>>,
      <<"chaddr", Str(<<<<1, 14>>, <<4, 11>>, <<10, 13>>, <<9, 1>>, <<6, 8>>,
                        <<3, 10>>, <<0, 0>>>>)>>,
      <<"hlen", Str("six")>>>>

\* nothing has been called yet
MsgStart(args) ==
    [op |-> "args", args |-> args, ivals |-> <<>>, self |-> <<>>,
     before |-> <<>>, octets |-> <<>>, exc |-> None]

InitMsg ==
    /\ pc = "args"
    /\ now = 0
    /\ state = <<>>
    /\ active_config = <<>>
    /\ pending_config = <<>>
    /\ ifaces = <<>>
    /\ ifaces_by_fd = <<>>
    /\ epfd = {}
    /\ opened = 0
    /\ \E i \in DOMAIN HlenForms, xid \in {17, 1987698441},
          chaddr \in ChaddrForms, sname \in SnameForms, file \in FileForms,
          magic \in BOOLEAN, options \in OptionForms :
          last = MsgStart(MessageArgs(HlenForms[i], xid, chaddr, sname, file,
                                      magic, options))

agent_vars == <<now, state, cfg_vars, io_vars>>

\* Message(args)
MsgNew ==
    /\ pc = "args"
    /\ \E r \in {Message(last.args)} :
          /\ pc' = IF r.exc = None THEN "built" ELSE "raised"
          /\ last' = [last EXCEPT !.op = "Message", !.self = r.self,
                                  !.exc = r.exc]
    /\ UNCHANGED agent_vars

\* self.pack()
MsgPack ==
    /\ pc = "built"
    /\ \E r \in {structured_value_pack(MessageSpec, last.self)} :
          /\ pc' = IF r.exc = None THEN "packed" ELSE "raised"
          /\ last' = [last EXCEPT !.op = "pack", !.octets = r.octets,
                                  !.exc = r.exc]
    /\ UNCHANGED agent_vars

\* Message.unpack(octets)
MsgUnpack ==
    /\ pc = "packed"
    /\ \E r \in {MessageUnpackOctets(last.octets)} :
          /\ pc' = IF r.exc = None THEN "unpacked" ELSE "raised"
          /\ last' = [last EXCEPT !.op = "unpack", !.before = last.self,
                                  !.self = r.self, !.exc = r.exc]
    /\ UNCHANGED agent_vars

\* self.update(ivals)
MsgUpdate ==
    /\ pc = "built"
    /\ \E i \in DOMAIN MessageUpdates :
          \E r \in {structured_value_update(MessageSpec, last.self,
                                            MessageUpdates[i])} :
             /\ pc' = "updated"
             /\ last' = [last EXCEPT !.op = "update",
                                     !.ivals = MessageUpdates[i],
                                     !.before = last.self, !.self = r.self,
                                     !.exc = r.exc]
    /\ UNCHANGED agent_vars

\* self[key] = val: _structured_value_setitem
MsgSetItem ==
    /\ pc = "built"
    /\ \E i \in DOMAIN MessageItems :
          \E r \in {structured_value_screen(MessageSpec, MessageItems[i][1],
                                            MessageItems[i][2])} :
             /\ pc' = "assigned"
             /\ last' = [last EXCEPT
                            !.op = "setitem",
                            !.ivals = <<MessageItems[i]>>,
                            !.before = last.self,
                            !.self = IF r.exc # None THEN last.self
                                     ELSE SetItem(last.self,
                                                  MessageItems[i][1], r.val),
                            !.exc = r.exc]
    /\ UNCHANGED agent_vars

NextMsg ==
    \/ MsgNew
    \/ MsgPack
    \/ MsgUnpack
    \/ MsgUpdate
    \/ MsgSetItem

SpecMsg == InitMsg /\ [][NextMsg]_vars

\* the options callers hand to encode: the two tag-only options; masks and
\* addresses, one of them of three elements only; time offsets of either
\* sign up to the ends of the range; host names: empty, DebianTester, one
\* accented letter, one letter outside iso-8859-1, 256 letters; the eight
\* message types and an unknown label; parameter lists, one empty and one
\* with an element above 255; relay agent information: empty, either
\* sub-option, both, an empty circuit-id, an unknown sub-option
NamedOptions ==
    <<[option |-> "Pad"],
      [option |-> "End"],
      [option |-> "Subnet Mask", value |-> "255.255.255.255"],
      [option |-> "Subnet Mask", value |-> "0.0.0.0"],
      [option |-> "Subnet Mask", value |-> "255.255.255"],
      [option |-> "Requested IP Address", value |-> "192.168.1.2"],
      [option |-> "Requested IP Address", value |-> "10.0.0.1"],
      [option |-> "Requested IP Address", value |-> "192.168.98.1"],
      [option |-> "Time Offset", value |-> 0],
      [option |-> "Time Offset", value |-> 1],
      [option |-> "Time Offset", value |-> -1],
      [option |-> "Time Offset", value |-> 3600],
      [option |-> "Time Offset", value |-> -18000],
      [option |-> "Time Offset", value |-> 2147483647],
      [option |-> "Time Offset", value |-> -2147483647],
      [option |-> "Host Name", value |-> <<>>],
      [option |-> "Host Name",
       value |-> <<68, 101, 98, 105, 97, 110, 84, 101, 115, 116, 101, 114>>],
      [option |-> "Host Name", value |-> <<233>>],
      [option |-> "Host Name", value |-> <<8364>>],
      [option |-> "Host Name", value |-> [i \in 1..256 |-> 97]],
      [option |-> "DHCP Message Type", value |-> "DHCPDISCOVER"],
      [option |-> "DHCP Message Type", value |-> "DHCPOFFER"],
      [option |-> "DHCP Message Type", value |-> "DHCPREQUEST"],
      [option |-> "DHCP Message Type", value |-> "DHCPDECLINE"],
      [option |-> "DHCP Message Type", value |-> "DHCPACK"],
      [option |-> "DHCP Message Type", value |-> "DHCPNAK"],
      [option |-> "DHCP Message Type", value |-> "DHCPRELEASE"],
      [option |-> "DHCP Message Type", value |-> "DHCPINFORM"],
      [option |-> "DHCP Message Type", value |-> "DHCPFOO"],
      [option |-> "Parameter Request List", value |-> <<1>>],
      [option |-> "Parameter Request List", value |-> <<1, 28, 2, 3, 15, 6>>],
      [option |-> "Parameter Request List", value |-> <<0, 255>>],
      [option |-> "Parameter Request List", value |-> <<>>],
      [option |-> "Parameter Request List", value |-> <<256>>],
      [option |-> "Relay Agent Information", value |-> <<>>],
      [option |-> "Relay Agent Information",
       value |-> [k \in {"circuit-id"} |-> Latin1["e101"]]],
      [option |-> "Relay Agent Information",
       value |-> [k \in {"remote-id"} |-> Latin1["e201"]]],
      [option |-> "Relay Agent Information",
       value |-> [k \in {"circuit-id", "remote-id"} |->
                     IF k = "circuit-id" THEN Latin1["e101"]
                     ELSE Latin1["e201"]]],
      [option |-> "Relay Agent Information",
       value |-> [k \in {"circuit-id"} |-> <<>>]],
      [option |-> "Relay Agent Information",
       value |-> [k \in {"vendor"} |-> Latin1["e101"]]]>>

\* nothing has been encoded yet
CodecStart(cls, option) ==
    [op |-> "val", cls |-> cls, option |-> option, encoded |-> <<>>,
     decoded |-> <<>>, exc |-> None]

MaxItems == 2

\* the items callers hand to Supported.encode: options a class encodes; a
\* label, a letter outside iso-8859-1 and an element above 255 their
\* class rejects; an unknown name, without and with the pairs of a TLV
\* option; TLV options with a hexadecimal string value that can and that
\* cannot be encoded; an end as a tag; a name without its value
EncodeItems ==
    <<[option |-> "Requested IP Address", value |-> "192.168.1.2"],
      [option |-> "End"],
      [option |-> "Relay Agent Information",
       value |-> [k \in {"circuit-id"} |-> Latin1["e101"]]],
      [option |-> "DHCP Message Type", value |-> "DHCPFOO"],
      [option |-> "Host Name", value |-> <<8364>>],
      [option |-> "Parameter Request List", value |-> <<256>>],
      [option |-> "Vendor", value |-> <<1>>],
      [option |-> "Vendor", tag |-> 43, length |-> 1,
       value |-> <<<<0, 1>>>>],
      [tag |-> 4, length |-> 4,
       value |-> <<<<0, 5>>, <<0, 6>>, <<0, 7>>, <<0, 8>>>>],
      [tag |-> 4, length |-> 1, value |-> <<<<1, 2, 3>>>>],
      [tag |-> end],
      [option |-> "Subnet Mask"]>>

\* the items callers hand to Supported.decode: TLV options a class
\* decodes; a message type outside the enum, a mask of three octets, an
\* empty relay agent information and a length that is not the length of
\* the value, which their class rejects; an unregistered tag; an end; a
\* tag without length and value; an item without a tag
DecodeItems ==
    <<[tag |-> 53, length |-> 1, value |-> <<3>>],
      [tag |-> 1, length |-> 4, value |-> <<255, 255, 255, 255>>],
      [tag |-> 2, length |-> 4, value |-> <<255, 255, 255, 255>>],
      [tag |-> RAI_TAG, length |-> 6, value |-> <<1, 4, 101, 49, 48, 49>>],
      [tag |-> end],
      [tag |-> 53, length |-> 1, value |-> <<9>>],
      [tag |-> 1, length |-> 3, value |-> <<1, 2, 3>>],
      [tag |-> RAI_TAG, length |-> 0, value |-> <<>>],
      [tag |-> 55, length |-> 2, value |-> <<1>>],
      [tag |-> 4, length |-> 4, value |-> <<6, 7, 8, 9>>],
      [tag |-> 12],
      [option |-> "Host Name", value |-> <<97>>]>>

\* the lists of at most MaxItems items, as lists of indexes
ItemLists == UNION {[1..n -> 1..12] : n \in 0..MaxItems}

MaxSubOctets == 6

\* the values handed to the relay agent information: every mapping of
\* circuit-id, remote-id and the unknown name vendor to the empty string,
\* X, YZ or a letter outside iso-8859-1
RaiValues ==
    UNION {[names -> {<<>>, <<88>>, <<89, 90>>, <<8364>>}] :
              names \in SUBSET {"circuit-id", "remote-id", "vendor"}}

\* the binary strings handed to its decode: at most MaxSubOctets octets
\* out of the two sub-tags, the unknown sub-tag 3, the lengths 0 to 3 and
\* the letter X
RaiOctets ==
    UNION {[1..n -> {0, 1, 2, 3, 88}] : n \in 0..MaxSubOctets}

\* nothing has been handed to the registry yet
RegistryStart(options) ==
    [op |-> "options", options |-> options, result |-> <<>>, exc |-> None]

InitCodec ==
    /\ now = 0
    /\ state = <<>>
    /\ active_config = <<>>
    /\ pending_config = <<>>
    /\ ifaces = <<>>
    /\ ifaces_by_fd = <<>>
    /\ epfd = {}
    /\ opened = 0
    /\ \/ /\ pc = "val"
          /\ \E c \in DOMAIN BuiltInClasses, o \in DOMAIN NamedOptions :
                last = CodecStart(BuiltInClasses[c], NamedOptions[o])
       \/ /\ pc = "val"
          /\ \E val \in RaiValues :
                last = CodecStart(RelayAgentInformation,
                                  [option |-> "Relay Agent Information",
                                   value |-> val])
       \/ /\ pc = "encoded"
          /\ \E octets \in RaiOctets :
                last = [CodecStart(RelayAgentInformation, <<>>)
                          EXCEPT !.op = "tlv",
                                 !.encoded = [tag |-> RAI_TAG,
                                              length |-> Len(octets),
                                              value |-> octets]]
       \/ /\ pc = "options"
          /\ \E list \in ItemLists :
                last = RegistryStart([i \in DOMAIN list |->
                                         EncodeItems[list[i]]])
       \/ /\ pc = "tlvs"
          /\ \E list \in ItemLists :
                last = RegistryStart([i \in DOMAIN list |->
                                         DecodeItems[list[i]]])

\* cls.encode(option)
CodecEncode ==
    /\ pc = "val"
    /\ \E r \in {OptionEncode(last.cls, last.option)} :
          /\ pc' = IF r.exc = None THEN "encoded" ELSE "raised"
          /\ last' = [last EXCEPT !.op = "encode", !.encoded = r.val,
                                  !.exc = r.exc]
    /\ UNCHANGED agent_vars

\* cls.decode(encoded)
CodecDecode ==
    /\ pc = "encoded"
    /\ \E r \in {OptionDecode(last.cls, last.encoded)} :
          /\ pc' = IF r.exc = None THEN "decoded" ELSE "raised"
          /\ last' = [last EXCEPT !.op = "decode", !.decoded = r.val,
                                  !.exc = r.exc]
    /\ UNCHANGED agent_vars

\* BuiltIn.encode(options)
RegistryEncode ==
    /\ pc = "options"
    /\ \E r \in {SupportedEncode(last.options)} :
          /\ pc' = IF r.exc = None THEN "returned" ELSE "raised"
          /\ last' = [last EXCEPT !.op = "Supported.encode",
                                  !.result = r.val, !.exc = r.exc]
    /\ UNCHANGED agent_vars

\* BuiltIn.decode(options)
RegistryDecode ==
    /\ pc = "tlvs"
    /\ \E r \in {SupportedDecode(last.options)} :
          /\ pc' = IF r.exc = None THEN "returned" ELSE "raised"
          /\ last' = [last EXCEPT !.op = "Supported.decode",
                                  !.result = r.val, !.exc = r.exc]
    /\ UNCHANGED agent_vars

NextCodec ==
    \/ CodecEncode
    \/ CodecDecode
    \/ RegistryEncode
    \/ RegistryDecode

SpecCodec == InitCodec /\ [][NextCodec]_vars

-----------------------------------------------------------------------------
(* The options value type on its own: a list of option records is made     *)
(* canonical, and the result is made canonical again.                      *)

MaxOptions == 3

\* the records callers write: the end and the pad, alone and with other
\* pairs; options with a value, with a pair too many, with an empty value;
\* a length that is not the length of the value, a tag above 255, a record
\* without a tag, a tag without length and value
OptionRecords ==
    <<[tag |-> end],
      [tag |-> pad],
      [tag |-> end, length |-> 1, value |-> <<3>>],
      [tag |-> pad, length |-> 0],
      [tag |-> 53, length |-> 1, value |-> <<3>>],
      [tag |-> 53, length |-> 1, value |-> <<3>>,
       option |-> "DHCP Message Type"],
      [tag |-> 12, length |-> 0, value |-> <<>>],
      [tag |-> 53, length |-> 2, value |-> <<3>>],
      [tag |-> 256, length |-> 0, value |-> <<>>],
      [length |-> 0, value |-> <<>>],
      [tag |-> 53]>>

\* the lists of at most MaxOptions records
OptionLists ==
    UNION {[1..n -> DOMAIN OptionRecords] : n \in 0..MaxOptions}

\* nothing has been called yet
OptStart(val) ==
    [op |-> "val", val |-> val, once |-> <<>>, twice |-> <<>>, exc |-> None]

MaxOctets == 5

\* the octets that make up the binary strings handed to unpack: the pad,
\* the end, a tag, and the lengths 1 and 2 (each also a tag and a value)
OptionAlphabet == {pad, 1, 2, 8, end}

\* the binary strings of at most MaxOctets octets
OctetStrings ==
    UNION {[1..n -> OptionAlphabet] : n \in 0..MaxOctets}

\* nothing has been unpacked yet
OctStart(octets) ==
    [op |-> "octets", octets |-> octets, options |-> <<>>, rest |-> <<>>,
     packed |-> <<>>, exc |-> None]

InitOpt ==
    /\ now = 0
    /\ state = <<>>
    /\ active_config = <<>>
    /\ pending_config = <<>>
    /\ ifaces = <<>>
    /\ ifaces_by_fd = <<>>
    /\ epfd = {}
    /\ opened = 0
    /\ \/ /\ pc = "val"
          /\ \E list \in OptionLists :
                last = OptStart([i \in DOMAIN list |->
                                    OptionRecords[list[i]]])
       \/ /\ pc = "octets"
          /\ \E octets \in OctetStrings : last = OctStart(octets)

\* Options()(val)
OptCall ==
    /\ pc = "val"
    /\ \E r \in {OptionsCall(last.val)} :
          /\ pc' = IF r.exc = None THEN "called" ELSE "raised"
          /\ last' = [last EXCEPT !.op = "call", !.once = r.val,
                                  !.exc = r.exc]
    /\ UNCHANGED agent_vars

\* Options()(val) on the canonical value
OptRecall ==
    /\ pc = "called"
    /\ \E r \in {OptionsCall(last.once)} :
          /\ pc' = IF r.exc = None THEN "recalled" ELSE "raised"
          /\ last' = [last EXCEPT !.op = "recall", !.twice = r.val,
                                  !.exc = r.exc]
    /\ UNCHANGED agent_vars

\* Options().unpack(octets)
OptUnpack ==
    /\ pc = "octets"
    /\ \E r \in {OptionsUnpack(last.octets)} :
          /\ pc' = IF r.exc = None THEN "unpacked" ELSE "raised"
          /\ last' = [last EXCEPT !.op = "unpack", !.options = r.options,
                                  !.rest = r.octets, !.exc = r.exc]
    /\ UNCHANGED agent_vars

\* Options().pack(options) of the unpacked options
OptPack ==
    /\ pc = "unpacked"
    /\ pc' = "packed"
    /\ last' = [last EXCEPT !.op = "pack",
                            !.packed = OptionsPack(last.options)]
    /\ UNCHANGED agent_vars

NextOpt ==
    \/ OptCall
    \/ OptRecall
    \/ OptUnpack
    \/ OptPack

SpecOpt == InitOpt /\ [][NextOpt]_vars

-----------------------------------------------------------------------------
(* Properties.  last describes the event the loop body has just handled:   *)
(* it is set by HandlePort and HandleUdp and reset when the loop goes on.  *)

Handled == last.ev # <<>>
FromUdp == Handled /\ last.ev[1].fd = 0
FromPort == Handled /\ last.ev[1].fd # 0 /\ last.ev[1].frame # <<>>
\* the payload that was read and, for a capture, the port it was read on
Data == last.ev[1].frame[1].data
Origin == ifaces_by_fd[last.ev[1].fd]
\* the first hlen octets of the payload's chaddr
ClientHw == SubSeq(Data.chaddr, 1, Data.hlen)

\* the octets of the well-formed option fields that precede End
BeforeEnd(octets) ==
    CASE octets = <<53, 1, 1>> -> <<53, 1, 1>>
      [] octets = <<53, 1, 1, 255>> -> <<53, 1, 1>>
      [] octets = <<0, 53, 1, 3, 0, 255>> -> <<0, 53, 1, 3, 0>>
      [] octets = <<82, 3, 1, 1, 65, 255>> -> <<82, 3, 1, 1, 65>>
      [] octets = <<12, 0, 255, 53, 1>> -> <<12, 0>>

\* C1: a BOOTREPLY read from the UDP socket leads to a write only if the
\* table holds an entry for its xid; the write is then the only one, it is a
\* send_client on the port of that entry and carries the same xid.  An entry
\* for x is written only by the handling of a BOOTREQUEST with xid x
\* captured on the port the entry records, so the entry names the port of
\* the latest such request.
ReplyCorrelation ==
    [][ /\ (pc = "drain" /\ FromUdp' /\ last'.writes # <<>>) =>
              LET x == Data'.xid
              IN  /\ Data'.op = BOOTREPLY
                  /\ x \in DOMAIN state
                  /\ Len(last'.writes) = 1
                  /\ last'.writes[1].path = "client"
                  /\ last'.writes[1].ifinfo = <<state[x].ifinfo>>
                  /\ last'.writes[1].data.xid = x
        /\ \A x \in DOMAIN state' :
              (x \notin DOMAIN state \/ state'[x] # state[x]) =>
                 /\ pc = "drain"
                 /\ FromPort'
                 /\ Data'.op = BOOTREQUEST
                 /\ Data'.xid = x
                 /\ state'[x].ifinfo = Origin'
      ]_vars

\* C1 witness: with two ports open, a reply from the UDP socket went out
ReplyCorrelated ==
    /\ pc = "sent"
    /\ FromUdp
    /\ last.writes # <<>>
    /\ Cardinality(DOMAIN ifaces) = 2

\* C2: handling a BOOTREPLY from the UDP socket leaves no entry for its
\* xid and leaves every other entry alone; if there was no entry before,
\* nothing is written and the table is unchanged.  An entry for the xid
\* comes back only with a BOOTREQUEST captured on a port.
ReplyDeletesEntry ==
    [][ /\ (pc = "drain" /\ FromUdp' /\ Data' \in Replies) =>
              LET x == Data'.xid
              IN  /\ x \notin DOMAIN state'
                  /\ DOMAIN state' = DOMAIN state \ {x}
                  /\ \A y \in DOMAIN state' : state'[y] = state[y]
                  /\ x \notin DOMAIN state => last'.writes = <<>>
        /\ \A x \in DOMAIN state' \ DOMAIN state :
              FromPort' /\ Data'.op = BOOTREQUEST /\ Data'.xid = x
      ]_vars

\* C2 witness: a reply went out, its entry is gone, the other xid's entry is
\* still there
ReplyConsumedEntry ==
    /\ pc = "sent"
    /\ FromUdp
    /\ last.writes # <<>>
    /\ Data.xid \notin DOMAIN state
    /\ DOMAIN state # {}

\* C3 as claimed: in every reachable state every entry is at most TIMEOUT old
NoEntryOlderThanTimeout ==
    \A x \in DOMAIN state : now - state[x].stamp <= TIMEOUT

\* C3 as amended: when the expiry scan of a loop iteration has run (the loop
\* is back at the poll), every entry is at most TIMEOUT old
NoEntryOlderThanTimeoutAfterScan ==
    pc = "poll" => \A x \in DOMAIN state : now - state[x].stamp <= TIMEOUT

\* C3 witness: a scan has kept an entry that is exactly TIMEOUT old
EntryOfAgeTimeoutKept ==
    /\ pc = "poll"
    /\ \E x \in DOMAIN state : now - state[x].stamp = TIMEOUT

\* C4: a BOOTREQUEST captured on a port in UdpRelay mode whose interface has
\* an IPv4 address leads to exactly one write: a datagram on the UDP socket
\* to (dst, 67) with giaddr the interface address and the xid received.
UdpRelayPath ==
    (FromPort /\ Data \in Requests
        /\ Origin.dst # None /\ HostIPv4[Origin.iface] # None) =>
       /\ Len(last.writes) = 1
       /\ last.writes[1].path = "udp"
       /\ last.writes[1].ip_dst = InetTable[Origin.dst]
       /\ last.writes[1].dport = 67
       /\ last.writes[1].data.giaddr = InetTable[HostIPv4[Origin.iface]]
       /\ last.writes[1].data.xid = Data.xid
       /\ last.writes[1].data.op = BOOTREQUEST

\* C4 witness: a request that arrived with a giaddr of its own was relayed
UdpRelayed ==
    /\ pc = "sent"
    /\ FromPort
    /\ Data \in Requests
    /\ Data.giaddr # <<0, 0, 0, 0>>
    /\ Origin.dst # None
    /\ last.writes # <<>>
    /\ last.writes[1].path = "udp"

\* C5: a BOOTREQUEST captured on a port in Mitm mode leads to exactly one
\* write: a frame on the trusted socket of that port, UDP source port 68 and
\* destination port 67, with the giaddr received.
MitmPath ==
    (FromPort /\ Data \in Requests /\ Origin.trusted # None) =>
       /\ Len(last.writes) = 1
       /\ last.writes[1].path = "upstream"
       /\ last.writes[1].ifinfo = <<Origin>>
       /\ last.writes[1].sport = 68
       /\ last.writes[1].dport = 67
       /\ last.writes[1].data.giaddr = Data.giaddr
       /\ last.writes[1].data.xid = Data.xid

\* C5 witness: a Mitm port whose interface has an IPv4 address forwarded a
\* request
MitmForwarded ==
    /\ pc = "sent"
    /\ FromPort
    /\ Data \in Requests
    /\ Origin.trusted # None
    /\ HostIPv4[Origin.iface] # None
    /\ last.writes # <<>>

\* C6: when the FDB of the port maps the chaddr of a captured BOOTREQUEST to
\* port name n, the options of the message handed to the send, and of the
\* frame written, are the received options before End, then option 82 with
\* the one sub-option circuit-id = n, then one End.
CircuitIdAppended ==
    (FromPort /\ Data \in Requests
        /\ ClientHw \in DOMAIN Brforward[Origin.iface]) =>
       LET n == Latin1[Brforward[Origin.iface][ClientHw]]
           expected == BeforeEnd(Data.options)
                       \o <<82, Len(n) + 2, 1, Len(n)>> \o n \o <<255>>
       IN  /\ last.ret.packet # <<>>
           /\ last.ret.packet[1].options = expected
           /\ \A i \in 1..Len(last.writes) :
                 last.writes[i].data.options = expected

\* C6 witness: a request that had Pad options and no option 82 went out with
\* a circuit-id
CircuitIdSent ==
    /\ pc = "sent"
    /\ FromPort
    /\ Data \in Requests
    /\ Data.options = <<0, 53, 1, 3, 0, 255>>
    /\ ClientHw \in DOMAIN Brforward[Origin.iface]
    /\ last.writes # <<>>

\* C7: when the FDB of the port does not map the chaddr of a captured
\* BOOTREQUEST, the request is written once, on the UDP socket for a port in
\* UdpRelay mode and on the trusted socket for a port in Mitm mode, with the
\* options it came with, and the table holds the entry for its xid.
ForwardedWithoutCircuitId ==
    (FromPort /\ Data \in Requests
        /\ ClientHw \notin DOMAIN Brforward[Origin.iface]) =>
       /\ Len(last.writes) = 1
       /\ last.writes[1].path =
             (IF Origin.dst # None THEN "udp" ELSE "upstream")
       /\ last.writes[1].data.options = BeforeEnd(Data.options) \o <<255>>
       /\ Data.xid \in DOMAIN state
       /\ state[Data.xid].ifinfo = Origin

\* C8: a reply from the UDP socket that matches an entry is written once, to
\* the capture handle of the port of the entry, with giaddr 0.0.0.0, the MAC
\* and the IPv4 address of the interface of that port as its sources, the
\* broadcast MAC and 255.255.255.255 as its destinations, UDP source port 67
\* and destination port 68.
ReplyFrame ==
    (FromUdp /\ last.ret.packet # <<>>) =>
       /\ Len(last.writes) = 1
       /\ LET frame == last.writes[1]
              port == last.ret.ifinfo[1]
          IN  /\ frame.path = "client"
              /\ frame.ifinfo = <<port>>
              /\ frame.data.giaddr = <<0, 0, 0, 0>>
              /\ frame.eth_src = HostMac[port.iface]
              /\ frame.ip_src = InetTable[HostIPv4[port.iface]]
              /\ frame.eth_dst = <<255, 255, 255, 255, 255, 255>>
              /\ frame.ip_dst = <<255, 255, 255, 255>>
              /\ frame.sport = 67
              /\ frame.dport = 68

\* C9: handling a payload that does not parse, or a capture read that
\* yields no frame, writes nothing, leaves the table as it was, and the loop
\* goes on.
UnparsableDropped ==
    [][ (pc = "drain" /\ Handled'
           /\ (last'.ev[1].frame = <<>> \/ Data' \in Malformed)) =>
           /\ last'.writes = <<>>
           /\ state' = state
           /\ pc' = "sent"
      ]_vars

\* C10: a write that fails leaves the loop running, the ports open and
\* registered.
SendFailureDropsFrame ==
    [][ (pc = "drain" /\ Handled' /\ last'.exc = "IOError") =>
           /\ pc' = "sent"
           /\ UNCHANGED <<ifaces, ifaces_by_fd, epfd>>
      ]_vars

-----------------------------------------------------------------------------
(* Properties of the configuration, under SpecCfg *)

\* the ports registered with the poll object are the open ports
Registered(by_name, by_fd, fds) ==
    /\ fds = {by_name[n].id : n \in DOMAIN by_name}
    /\ DOMAIN by_fd = fds
    /\ \A n \in DOMAIN by_name : by_fd[by_name[n].id] = by_name[n]

\* C11: after an iteration that swaps a pending snapshot in and in which
\* every port it opens is opened successfully, the open ports are exactly
\* the names of the new active configuration; a port that was open before
\* and is still named is the same instance, it was not opened again and
\* its registration is the one it had.
ReconcileFrame ==
    [][(/\ last'.op = "tick"
        /\ pending_config # <<>>
        /\ last'.failing \cap (Names(pending_config[1]) \ DOMAIN ifaces) = {})
       => /\ active_config' = pending_config
          /\ DOMAIN ifaces' = Names(pending_config[1])
          /\ Registered(ifaces', ifaces_by_fd', epfd')
          /\ opened' = opened
                + Cardinality(Names(pending_config[1]) \ DOMAIN ifaces)
          /\ \A n \in DOMAIN ifaces \cap Names(pending_config[1]) :
                /\ ifaces'[n] = ifaces[n]
                /\ ifaces[n].id \in epfd
                /\ ifaces_by_fd'[ifaces[n].id] = ifaces_by_fd[ifaces[n].id]]_vars

\* a swap has kept the port opened first and the one opened after it
ReconcileKeptPort ==
    /\ last.op = "tick"
    /\ last.swapped
    /\ last.failing = {}
    /\ pending_config = <<>>
    /\ \E n, m \in DOMAIN ifaces : ifaces[n].id < ifaces[m].id

\* C12: when the opening of a port fails during reconciliation, that
\* interface has no port and no registration afterwards, every other
\* interface of the snapshot is open (opened now or kept), every open port
\* whose interface is not in the snapshot is gone, and the loop goes on to
\* its next iteration.
OpenFailureIsolated ==
    [][(last'.op = "tick" /\ pending_config # <<>>)
       => LET names == Names(pending_config[1])
              failed == last'.failing \cap (names \ DOMAIN ifaces)
          IN  /\ DOMAIN ifaces' = names \ failed
              /\ Registered(ifaces', ifaces_by_fd', epfd')
              /\ \A n \in DOMAIN ifaces \cap names : ifaces'[n] = ifaces[n]
              /\ active_config' = pending_config
              /\ last'.exc = None
              /\ pc' = "poll"]_vars

\* an open has failed in a swap that left another interface open
OpenFailedBesideOpenPort ==
    /\ last.op = "tick"
    /\ last.swapped
    /\ active_config # <<>>
    /\ \E n \in last.failing \cap Names(active_config[1]) :
          /\ n \notin DOMAIN ifaces
          /\ \E k \in DOMAIN ifaces : k # n

\* a change that names both a server and a trusted port, or neither
OneMode(r) == (r.dhcp_server = None) # (r.trusted = None)

\* the records of a configuration slot
Records(slot) ==
    IF slot = <<>> THEN {} ELSE {slot[1][i] : i \in 1..Len(slot[1])}

\* C13: a Create or Set whose change names both a server and a trusted
\* port, or neither, is rejected and leaves the pending and the active
\* configuration as they were; no record of either configuration has both
\* fields or neither.
InvalidModeRejected ==
    [][/\ (last'.op \in {"create", "set"} /\ ~OneMode(last'.change))
          => /\ ~last'.ret
             /\ pending_config' = pending_config
             /\ active_config' = active_config
       /\ \A r \in Records(pending_config') \cup Records(active_config') :
             OneMode(r)]_vars

\* the names of a configuration slot
SlotNames(slot) == IF slot = <<>> THEN {} ELSE Names(slot[1])

\* no two records of a configuration slot carry the same name
UniqueNames(slot) ==
    slot = <<>> \/ \A i, j \in 1..Len(slot[1]) :
                      slot[1][i].name = slot[1][j].name => i = j

\* C14: a Create for a name that is already present, in the active
\* configuration or accepted by an earlier Create and still pending, is
\* rejected and changes neither configuration; no configuration holds two
\* records with the same name.
DuplicateCreateRejected ==
    [][/\ (/\ last'.op = "create"
           /\ last'.change.name
                 \in SlotNames(active_config) \cup SlotNames(pending_config))
          => /\ ~last'.ret
             /\ pending_config' = pending_config
             /\ active_config' = active_config
       /\ UniqueNames(pending_config')
       /\ UniqueNames(active_config')]_vars

-----------------------------------------------------------------------------
(* Properties of the ports' resources *)

\* The ports that hold their capture handle, trusted socket and trap rules.
\* del_if only drops the two dictionary entries, nothing closes the handle
\* or the socket, and the rules are deleted by Filters.__del__: a port holds
\* them for as long as its Ifinfo object is referred to, by the
\* dictionaries or by a tuple of the transaction table.
Holding(by_name, by_fd, st) ==
    {by_name[n].id : n \in DOMAIN by_name}
    \cup DOMAIN by_fd
    \cup {st[xid].ifinfo.id : xid \in DOMAIN st}

\* C15: when a reconciliation removes an interface, the capture handle, the
\* trusted socket and the trap rules of its port are released by the end of
\* that reconciliation, whatever still refers to the port, transaction
\* entries included.
RemovedPortReleased ==
    [][(pc = "config" /\ pending_config # <<>>)
       => \A n \in DOMAIN ifaces \ DOMAIN ifaces' :
             ifaces[n].id \notin Holding(ifaces', ifaces_by_fd', state')]_vars

\* the elements of a list
Elements(list) == {list[i] : i \in 1..Len(list)}

\* C16: the port of a bridge in man-in-the-middle mode has two trap rules,
\* for UDP destination ports 67 and 68, and each matches exactly the member
\* ports of the bridge without the trusted port; the port of an interface
\* in relay mode has no trap rule.
TrapRulesExcludeTrusted ==
    \A n \in DOMAIN ifaces :
       LET rules == IfinfoFilters(ifaces[n])
       IN  IF ifaces[n].dst # None THEN rules = {}
           ELSE /\ {r.l4_dst_port : r \in rules} = {DHCPS, DHCPC}
                /\ Cardinality(rules) = 2
                /\ \A r \in rules :
                      /\ r.ip_protocol = UDP
                      /\ Elements(r.in_ports)
                            = Elements(BridgePorts[n]) \ {ifaces[n].trusted}

-----------------------------------------------------------------------------
(* Properties of the message class, under SpecMsg *)

\* chaddr is written as hlen elements of two lower case digits
PlainChaddr(self) ==
    /\ Len(self.chaddr) = self.hlen
    /\ \A i \in 1..Len(self.chaddr) :
          /\ Len(self.chaddr[i]) = 2
          /\ \A j \in 1..2 : self.chaddr[i][j] \in 0..15

\* a text without a NUL character
NoNul(val) == \A i \in 1..Len(val) : val[i] # 0

\* the octets after the file field tell whether the cookie is there
PlainCookie(self) ==
    \/ self.cookie
    \/ Len(OptionsPack(self.options)) < 4
    \/ SubSeq(OptionsPack(self.options), 1, 4) # cookie

\* C17 as stated: for every message M whose sixteen fields hold canonical
\* values, Message.unpack(M.pack()) equals M field for field.
MessageRoundTrip ==
    last.op = "unpack" => last.exc = None /\ last.self = last.before

\* C17, amended: Message.unpack(M.pack()) equals M field for field for
\* every message M with canonical values in which chaddr is written as
\* exactly hlen elements of two lower case digits, sname and file hold no
\* NUL character, and the cookie is present or the packed options do not
\* begin with the octets of the cookie.
PlainMessageRoundTrip ==
    (/\ last.op = "unpack"
     /\ PlainChaddr(last.before)
     /\ NoNul(last.before.sname)
     /\ NoNul(last.before.file)
     /\ PlainCookie(last.before))
    => last.exc = None /\ last.self = last.before

\* a message with a chaddr of six octets, a server name and an option has
\* come back from its octets
PlainMessageUnpacked ==
    /\ last.op = "unpack"
    /\ last.exc = None
    /\ PlainChaddr(last.before)
    /\ last.before.hlen = 6
    /\ NoNul(last.before.sname)
    /\ Len(last.before.sname) = 63
    /\ NoNul(last.before.file)
    /\ last.before.file # <<>>
    /\ last.before.cookie
    /\ Len(last.before.options) = 3
    /\ Len(last.octets) > 240

\* the canonical value of the i-th pair of an update, or its rejection
ScreenedPair(ivals, i) ==
    structured_value_screen(MessageSpec, ivals[i][1], ivals[i][2])

\* C20: a bulk update is atomic: when every pair validates, every key of
\* the update holds the canonical value of its pair and every other key is
\* as it was; when a pair is rejected, the call raises and the record is
\* exactly as it was before the call.
UpdateAtomic ==
    last.op = "update"
    => IF \A i \in 1..Len(last.ivals) : ScreenedPair(last.ivals, i).exc = None
       THEN /\ last.exc = None
            /\ DOMAIN last.self
                  = DOMAIN last.before
                    \cup {last.ivals[i][1] : i \in 1..Len(last.ivals)}
            /\ \A i \in 1..Len(last.ivals) :
                  last.self[last.ivals[i][1]]
                    = ScreenedPair(last.ivals, i).val
            /\ \A key \in DOMAIN last.before :
                  key \notin {last.ivals[i][1] : i \in 1..Len(last.ivals)}
                  => last.self[key] = last.before[key]
       ELSE /\ last.exc \in {"KeyError", "ValueError", "TypeError"}
            /\ last.self = last.before

\* an update was rejected for its second pair after its first pair, which
\* would have changed the record, had been accepted
UpdateRejectedAfterValidPair ==
    /\ last.op = "update"
    /\ last.exc = "ValueError"
    /\ Len(last.ivals) = 2
    /\ ScreenedPair(last.ivals, 1).exc = None
    /\ ScreenedPair(last.ivals, 1).val # last.before[last.ivals[1][1]]
    /\ ScreenedPair(last.ivals, 2).exc = "ValueError"

-----------------------------------------------------------------------------
(* Properties of the options value type, under SpecOpt *)

\* the records of a list that are not the end
NotEnd(val) == SelectSeq(val, LAMBDA option : option.tag # end)

\* C18: making an option list canonical is idempotent and settles the
\* end: the canonical value made canonical again is itself; it holds the
\* records of the list that are not the end, in their order, then one end
\* record, and no other end.
CanonicalIdempotent ==
    last.op = "recall"
    => /\ last.exc = None
       /\ last.twice = last.once
       /\ Len(last.once) = Len(NotEnd(last.val)) + 1
       /\ last.once[Len(last.once)] = [tag |-> end]
       /\ \A i \in 1..Len(NotEnd(last.val)) :
             /\ last.once[i].tag = NotEnd(last.val)[i].tag
             /\ last.once[i].tag # end
             /\ last.once[i].tag # pad
                => /\ last.once[i].length = NotEnd(last.val)[i].length
                   /\ last.once[i].value = NotEnd(last.val)[i].value
             /\ DOMAIN last.once[i]
                   = IF last.once[i].tag = pad THEN {"tag"}
                     ELSE {"tag", "length", "value"}

\* a list with an end in front of an option that carries a pair too many
\* has been made canonical twice
EndDroppedFromTheMiddle ==
    /\ last.op = "recall"
    /\ Len(last.val) = 3
    /\ last.val[1].tag = end
    /\ DOMAIN last.val[2] = {"tag", "length", "value", "option"}
    /\ last.val[3].tag = pad
    /\ Len(last.once) = 3

-----------------------------------------------------------------------------
(* Properties of the built-in options, under SpecCodec *)

\* the values the option table admits for a class: an address, a signed
\* integer of 32 bits, a string of iso-8859-1, one of the eight labels, a
\* sequence of at least one octet, a mapping over circuit-id and remote-id
CanonicalValue(cls, val) ==
    CASE cls.value_type = "IPv4" -> val \in DOMAIN InetTable
      [] cls.value_type = "SInt32" -> TRUE
      [] cls.value_type = "Enum" -> val \in DOMAIN label_to_value
      [] cls.option = "Host Name" -> \A i \in 1..Len(val) : val[i] <= 255
      [] cls.option = "Parameter Request List" ->
            Len(val) >= 1 /\ \A i \in 1..Len(val) : val[i] \in 0..255
      [] cls.option = "Relay Agent Information" ->
            /\ DOMAIN val \subseteq DOMAIN subtags
            /\ \A k \in DOMAIN val :
                  /\ Len(val[k]) <= 255
                  /\ \A i \in 1..Len(val[k]) : val[k][i] <= 255

\* a built-in class with a value has been handed its own option with a
\* canonical value
OwnCanonicalOption ==
    /\ last.op \in {"encode", "decode"}
    /\ "value" \in DOMAIN last.option
    /\ last.cls.value_type # None
    /\ last.cls.option = last.option.option
    /\ CanonicalValue(last.cls, last.option.value)

\* C19: for every built-in option with a value and every canonical value
\* of it, encode accepts the named option and decode of the result returns
\* the named option with an equal value.
BuiltInRoundTrip ==
    OwnCanonicalOption
    => /\ last.exc = None
       /\ last.op = "decode" => last.decoded = last.option

\* C21: after any mutation of hlen or chaddr of a message (construction,
\* item assignment or bulk update), when both fields are present chaddr
\* has at most hlen elements.
ChaddrWithinHlen ==
    /\ last.op \in {"Message", "unpack", "setitem", "update"}
    /\ {"hlen", "chaddr"} \subseteq DOMAIN last.self
    => Len(last.self.chaddr) <= last.self.hlen

-----------------------------------------------------------------------------
(* Properties of Options.unpack, under SpecOpt *)

RECURSIVE Framing(_, _)
\* the framing of a binary string read from index k: short when a tag
\* other than the pad and the end lacks its length or its value, ended
\* when an end was read, k the index after the last octet read
Framing(octets, k) ==
    IF k > Len(octets) THEN [short |-> FALSE, ended |-> FALSE, k |-> k]
    ELSE IF octets[k] = pad THEN Framing(octets, k + 1)
    ELSE IF octets[k] = end
    THEN [short |-> FALSE, ended |-> TRUE, k |-> k + 1]
    ELSE IF k + 1 > Len(octets) \/ k + 1 + octets[k + 1] > Len(octets)
    THEN [short |-> TRUE, ended |-> FALSE, k |-> k]
    ELSE Framing(octets, k + 2 + octets[k + 1])

\* C22: unpack is greedy with strict framing: it fails exactly when a tag
\* other than the pad and the end lacks its length octet or its value
\* octets; otherwise it returns the options read up to and including the
\* first end, every octet after that end as trailing octets, and no
\* trailing octets when the input is exhausted without an end; and
\* pack of the options followed by the trailing octets is the input.
UnpackStrictFraming ==
    last.op \in {"unpack", "pack"}
    => IF Framing(last.octets, 1).short THEN last.exc = "ValueError"
       ELSE /\ last.exc = None
            /\ last.rest = SubSeq(last.octets, Framing(last.octets, 1).k,
                                  Len(last.octets))
            /\ ~Framing(last.octets, 1).ended => last.rest = <<>>
            /\ \A i \in 1..Len(last.options) :
                  /\ last.options[i].tag = end
                     <=> Framing(last.octets, 1).ended
                         /\ i = Len(last.options)
                  /\ IF last.options[i].tag \in {pad, end}
                     THEN DOMAIN last.options[i] = {"tag"}
                     ELSE /\ DOMAIN last.options[i]
                               = {"tag", "length", "value"}
                          /\ last.options[i].length
                               = Len(last.options[i].value)
            /\ Framing(last.octets, 1).ended => last.options # <<>>
            /\ last.op = "pack" => last.packed \o last.rest = last.octets

\* an option whose value is the end octet, then an end, then one trailing
\* octet have been unpacked and packed again
UnpackedWithTrailing ==
    /\ last.op = "pack"
    /\ last.octets = <<8, 1, end, end, 2>>
    /\ last.options = <<[tag |-> 8, length |-> 1, value |-> <<end>>],
                        [tag |-> end]>>
    /\ last.rest = <<2>>

-----------------------------------------------------------------------------
(* Properties of the registry, under SpecCodec *)

\* the item the registry is to return for an item: the result of the
\* registered class where there is one and it succeeds, else the TLV
\* conversion where it succeeds, else the item
Converted(registered, generic, option) ==
    IF registered.exc = None THEN registered.val
    ELSE IF generic.exc = None THEN generic.val
    ELSE option

\* C23: Supported.encode and Supported.decode never fail: they return a
\* list of the length and in the order of the input, each item the
\* result of the registered class if there is one and it succeeds,
\* otherwise the TLV conversion if it succeeds, otherwise the input item.
RegistryNeverFails ==
    /\ last.op = "Supported.encode"
       => /\ last.exc = None
          /\ Len(last.result) = Len(last.options)
          /\ \A i \in 1..Len(last.options) :
                last.result[i] = Converted(NamedEncode(last.options[i]),
                                           GenericEncode(last.options[i]),
                                           last.options[i])
    /\ last.op = "Supported.decode"
       => /\ last.exc = None
          /\ Len(last.result) = Len(last.options)
          /\ \A i \in 1..Len(last.options) :
                last.result[i] = Converted(TaggedDecode(last.options[i]),
                                           GenericDecode(last.options[i]),
                                           last.options[i])

-----------------------------------------------------------------------------
(* Properties of the relay agent information, under SpecCodec *)

\* the octets of one sub-option of a value, empty where the value has none
SubOption(val, key) ==
    IF key \in DOMAIN val THEN <<subtags[key], Len(val[key])>> \o val[key]
    ELSE <<>>

RECURSIVE SubFraming(_, _)
\* the sub-options of a binary string read from index k, as pairs of
\* sub-tag and value; bad when a sub-tag is unknown, lacks its length or
\* has a value shorter than its length
SubFraming(octets, k) ==
    IF k > Len(octets) THEN [bad |-> FALSE, subs |-> <<>>]
    ELSE IF \/ octets[k] \notin {1, 2}
            \/ k + 1 > Len(octets)
            \/ k + 1 + octets[k + 1] > Len(octets)
    THEN [bad |-> TRUE, subs |-> <<>>]
    ELSE LET rest == SubFraming(octets, k + 2 + octets[k + 1])
         IN  [bad |-> rest.bad,
              subs |-> <<<<octets[k],
                           SubSeq(octets, k + 2, k + 1 + octets[k + 1])>>>>
                       \o rest.subs]

\* C24: encode_value emits circuit-id before remote-id and rejects a
\* value with an unknown sub-option name; decode_value rejects a value of
\* fewer than two octets, an unknown sub-tag, a missing sub-length and a
\* sub-value shorter than its length, and otherwise returns the
\* sub-options in whatever order they come, the last value of a sub-tag
\* that is repeated.
RaiCodec ==
    /\ /\ last.op = "encode"
       /\ last.cls = RelayAgentInformation
       /\ "value" \in DOMAIN last.option
       /\ last.option.option = "Relay Agent Information"
       => IF ~(DOMAIN last.option.value \subseteq DOMAIN subtags)
          THEN Caught(last.exc, {"ValueError"})
          ELSE IF \E k \in DOMAIN last.option.value :
                     \E i \in 1..Len(last.option.value[k]) :
                        last.option.value[k][i] > 255
          THEN last.exc # None
          ELSE /\ last.exc = None
               /\ last.encoded.value
                     = SubOption(last.option.value, "circuit-id")
                       \o SubOption(last.option.value, "remote-id")
    /\ /\ last.op = "decode"
       /\ last.cls = RelayAgentInformation
       => LET octets == last.encoded.value
              framing == SubFraming(octets, 1)
              last_of(t) == CHOOSE i \in 1..Len(framing.subs) :
                               /\ framing.subs[i][1] = t
                               /\ \A j \in (i + 1)..Len(framing.subs) :
                                     framing.subs[j][1] # t
          IN  IF Len(octets) < 2 \/ framing.bad
              THEN last.exc = "ValueError"
              ELSE /\ last.exc = None
                   /\ DOMAIN last.decoded.value
                         = {suboptions[framing.subs[i][1]] :
                               i \in 1..Len(framing.subs)}
                   /\ \A key \in DOMAIN last.decoded.value :
                         last.decoded.value[key]
                           = framing.subs[last_of(subtags[key])][2]

\* a value with the circuit-id X and then the empty circuit-id has been
\* decoded to the empty circuit-id
RaiDuplicateDecoded ==
    /\ last.op = "decode"
    /\ last.exc = None
    /\ last.encoded.value = <<1, 1, 88, 1, 0>>
    /\ DOMAIN last.decoded.value = {"circuit-id"}
    /\ last.decoded.value["circuit-id"] = <<>>


-----------------------------------------------------------------------------
(* Properties of concurrent configuration updates *)

\* a configuration slot shows the effect of an accepted transaction: the
\* name is gone after a delete, and after a create or a set the record of
\* the name carries the mode of the change
Reflects(slot, op, change) ==
    /\ slot # <<>>
    /\ IF op = "delete" THEN change.name \notin Names(slot[1])
       ELSE \E i \in 1..Len(slot[1]) :
               /\ slot[1][i].name = change.name
               /\ slot[1][i] = add_change([name |-> change.name,
                                           dhcp_server |-> None,
                                           trusted |-> None], change)

\* the callback returned True
Accepted(l) == l.op \in {"create", "set", "delete"} /\ l.ret

\* C25: when a transaction on one interface name is accepted right after an
\* accepted transaction on another name, with no loop iteration in between,
\* the pending configuration shows both, and the iteration that follows
\* makes that pending configuration the active one.
NoLostUpdate ==
    [][/\ (/\ Accepted(last) /\ Accepted(last')
           /\ last.change.name # last'.change.name)
          => /\ Reflects(pending_config', last.op, last.change)
             /\ Reflects(pending_config', last'.op, last'.change)
       /\ (last'.op = "tick" /\ last'.swapped)
          => active_config' = pending_config]_vars


\* C26: the configuration that the loop's clear overwrites is the one the
\* loop has loaded and activates next: no configuration published by a
\* callback or by the SIGUSR1 reload is cleared without becoming active.
HandoffAtomic ==
    [][(pc = "clear" /\ pc' = "activate")
          => pending_config = last.loaded]_vars


-----------------------------------------------------------------------------
(* Properties of the mode of a port *)

\* C27: when an iteration has swapped a pending configuration in and
\* reconciled, every open port has the server address and the trusted port
\* that the active configuration records for its name.
PortsFollowMode ==
    (last.op = "tick" /\ last.swapped)
       => \A n \in DOMAIN ifaces :
             \A i \in 1..Len(active_config[1]) :
                active_config[1][i].name = n
                   => /\ ifaces[n].dst = active_config[1][i].dhcp_server
                      /\ ifaces[n].trusted = active_config[1][i].trusted


\* C28: the loop body calls mitm_send, the write on the trusted socket,
\* only for a port that has a trusted port and no server address: a packet
\* that process_packet returns with MITM_RELAY comes from a port in
\* man-in-the-middle mode.
UpstreamOnlyForMitm ==
    (Handled /\ last.ret.packet # <<>> /\ last.ret.relay = MITM_RELAY)
       => /\ last.ret.ifinfo[1].trusted # None
          /\ last.ret.ifinfo[1].dst = None


-----------------------------------------------------------------------------
(* Properties of the transaction table *)

\* the loop body has just handled a reply read from the UDP socket
ReplyFromUdp == FromUdp /\ Data \in Replies

\* C29: the expiry scan removes exactly the entries older than TIMEOUT and
\* leaves the others, one of age TIMEOUT among them, as they were; a reply
\* from the UDP socket is correlated with the entry of its xid whenever the
\* table holds one and is dropped otherwise; an entry leaves the table only
\* through the scan, when it is older than TIMEOUT, or through a reply with
\* its xid.  So the entry of a request is there for every reply that comes
\* within TIMEOUT, unless an earlier reply took it.
ExpiryExact ==
    [][/\ (pc = "expiry" /\ pc' = "poll")
          => /\ DOMAIN state' =
                   {x \in DOMAIN state : now - state[x].stamp <= TIMEOUT}
             /\ \A x \in DOMAIN state' : state'[x] = state[x]
       /\ (pc = "drain" /\ ReplyFromUdp')
          => IF Data'.xid \in DOMAIN state
             THEN /\ last'.ret.packet # <<>>
                  /\ last'.ret.ifinfo = <<state[Data'.xid].ifinfo>>
             ELSE /\ last'.ret.packet = <<>>
                  /\ last'.writes = <<>>
                  /\ state' = state
       /\ \A x \in DOMAIN state \ DOMAIN state' :
             \/ pc = "expiry" /\ now - state[x].stamp > TIMEOUT
             \/ pc = "drain" /\ ReplyFromUdp' /\ Data'.xid = x]_vars

\* C29 witness: a scan has just kept an entry of age TIMEOUT next to an
\* entry written in the same iteration
ScanKeptBoundaryEntry ==
    /\ pc = "poll"
    /\ \E x, y \in DOMAIN state :
          /\ now - state[x].stamp = TIMEOUT
          /\ now - state[y].stamp = 0


\* C30: the table changes in three ways only: a request captured on a port
\* writes the one entry of its xid (the port, the source addresses of the
\* frame, the time) and leaves the others alone; a reply from the UDP
\* socket whose xid has an entry removes that entry alone; the expiry scan
\* removes entries and changes none.  A request read from the UDP socket and
\* a reply from the UDP socket without an entry return no packet, write
\* nothing and leave the table as it was; a reply captured on a port is
\* written once, toward the client on that port, and leaves the table as it
\* was.
TableFrame ==
    [][/\ state' # state
          => \/ /\ pc = "drain" /\ FromPort' /\ Data'.op = BOOTREQUEST
                /\ state' = Put(state, Data'.xid,
                                [ifinfo |-> Origin',
                                 src_ip |-> last'.ev[1].frame[1].src_ip,
                                 src_mac |-> last'.ev[1].frame[1].src_mac,
                                 stamp |-> now])
             \/ /\ pc = "drain" /\ ReplyFromUdp'
                /\ Data'.xid \in DOMAIN state
                /\ state' = Del(state, {Data'.xid})
             \/ /\ pc = "expiry"
                /\ DOMAIN state' \subseteq DOMAIN state
                /\ \A x \in DOMAIN state' : state'[x] = state[x]
       /\ (/\ pc = "drain" /\ FromUdp'
           /\ \/ Data' \in Requests
              \/ Data' \in Replies /\ Data'.xid \notin DOMAIN state)
          => /\ state' = state
             /\ last'.ret.packet = <<>>
             /\ last'.writes = <<>>
       /\ (pc = "drain" /\ FromPort' /\ Data' \in Replies)
          => /\ state' = state
             /\ last'.ret.relay = DO_NOT_RELAY
             /\ Len(last'.writes) = 1
             /\ last'.writes[1].path = "client"
             /\ last'.writes[1].ifinfo = <<Origin'>>
             /\ last'.writes[1].data.xid = Data'.xid]_vars

\* C30 witness: a reply captured on a port went out toward the client while
\* the table holds an entry for its xid
PortReplyPassed ==
    /\ pc = "sent"
    /\ FromPort
    /\ Data \in Replies
    /\ last.writes # <<>>
    /\ Data.xid \in DOMAIN state

====
